---- MODULE Spec2Model ----
(***************************************************************************)
(* A model of the Ankara tree-walking interpreter (src/src/interpreter):   *)
(* runtime objects, the environment tree with its watch registry, and the  *)
(* recursive evaluator, driven by Program::eval one top-level statement at *)
(* a time.                                                                 *)
(*                                                                         *)
(* Encoding.                                                               *)
(*  - An Object is a record [k, n, s, env, params, body, w].  k is the     *)
(*    variant of the innermost plain value; w is the stack of Return /     *)
(*    BlockReturn boxes around it, outermost first, so                     *)
(*    Return(Return(Number 1)) is Number 1 with w = <<"Return","Return">>. *)
(*  - Rc<RefCell<Environment>> is an index into st.envs, Rc<Array> an      *)
(*    index into st.arrays; cloning an Rc copies the index.                *)
(*  - Result<Object, Error> is [st, val, err, msg]: err is "ok" for Ok,    *)
(*    "err" for Err(Error{message: msg}) and "panic" for a Rust panic      *)
(*    (unwrap on Err/None, RefCell BorrowMutError, stack exhaustion).      *)
(*  - st.trace is a history of evaluation events (ghost), reset at the     *)
(*    start of every top-level statement.                                  *)
(***************************************************************************)
EXTENDS Integers, Sequences, FiniteSets, TLC

\* ---------------------------------------------------------------- bounds

\* number of top-level statements of a program
MaxStmts == 3

\* nesting of closure calls / watch re-evaluations the host stack allows
MaxDepth == 6

\* ---------------------------------------------------------------- objects

Plain(k, n, s) ==
    [k |-> k, n |-> n, s |-> s, env |-> 0, params |-> <<>>, body |-> <<>>, w |-> <<>>]

Number(n) == Plain("Number", n, "")
Boolean(b) == Plain("Boolean", IF b THEN 1 ELSE 0, "")
StringLiteral(s) == Plain("StringLiteral", 0, s)
ArrayObj(ref) == Plain("Array", ref, "")
BuiltInFunction(name) == Plain("BuiltInFunction", 0, name)
NoneObj == Plain("None", 0, "")
NullObj == Plain("Null", 0, "")
VoidObj == Plain("Void", 0, "")

\* Function{parameters, body, env}
Function(parameters, body, env) ==
    [k |-> "Function", n |-> 0, s |-> "", env |-> env,
     params |-> parameters, body |-> body, w |-> <<>>]

Return(value) == [value EXCEPT !.w = <<"Return">> \o @]
BlockReturn(value) == [value EXCEPT !.w = <<"BlockReturn">> \o @]

\* the variant a Rust `match` sees: the outermost box, else the plain variant
Variant(obj) == IF obj.w # <<>> THEN Head(obj.w) ELSE obj.k

\* the payload of a Return / BlockReturn box
Payload(obj) == [obj EXCEPT !.w = Tail(@)]

is_return(obj) == Variant(obj) = "Return"

is_return_like(obj) == Variant(obj) \in {"Return", "BlockReturn"}

is_falsey(obj) ==
    CASE Variant(obj) = "Boolean" -> obj.n = 0
      [] Variant(obj) = "Null" -> TRUE
      [] Variant(obj) = "Void" -> TRUE
      [] Variant(obj) = "None" -> TRUE
      [] Variant(obj) = "Number" -> obj.n = 0
      [] OTHER -> FALSE

is_equal_to(a, b) ==
    CASE Variant(a) = "Number" /\ Variant(b) = "Number" -> a.n = b.n
      [] Variant(a) = "Boolean" /\ Variant(b) = "Boolean" -> a.n = b.n
      [] Variant(a) = "StringLiteral" /\ Variant(b) = "StringLiteral" -> a.s = b.s
      [] Variant(a) = "Null" /\ Variant(b) = "Null" -> TRUE
      [] Variant(a) = "Void" /\ Variant(b) = "Void" -> TRUE
      [] Variant(a) = "None" /\ Variant(b) = "None" -> TRUE
      [] OTHER -> FALSE

\* `value == Object::None` (derived PartialEq)
IsNone(obj) == Variant(obj) = "None"

\* ---------------------------------------------------------------- results

Ok(st, val) == [st |-> st, val |-> val, err |-> "ok", msg |-> ""]
Err(st, msg) == [st |-> st, val |-> NoneObj, err |-> "err", msg |-> msg]
Panic(st, msg) == [st |-> st, val |-> NoneObj, err |-> "panic", msg |-> msg]

IsOk(r) == r.err = "ok"

Log(st, event) == [st EXCEPT !.trace = Append(@, event)]

\* ev: the kind of step, d: the frame depth, n: an environment, array or count,
\* i: an index or a second environment, s: a name, val: the object involved.
\*   read, assign: n the environment the name resolved in, i the one evaluated in
\*   call, callret: n the call's environment, i the one the closure was created in
\*   store: n the array, i the numeric index (-1 for a key), s the key
\*   return: n the enclosing for bodies, i the enclosing watch blocks of the frame
Event(ev, d, n, i, s, val) == [ev |-> ev, d |-> d, n |-> n, i |-> i, s |-> s, val |-> val]

\* ---------------------------------------------------------------- environment

EmptyEnvironment(parent) ==
    [values |-> <<>>, watch |-> <<>>, parent |-> parent]

\* Environment::new: a fresh node whose parent link is `parent` (0 = None).
\* The snapshot pushed on parent.children serves to_string only and is not
\* modelled.  The random u32 id that PartialEq compares is the node's index.
NewEnvironment(st, parent) ==
    [st EXCEPT !.envs = Append(@, EmptyEnvironment(parent))]

Has(f, name) == name \in DOMAIN f

Put(f, name, v) == [x \in (DOMAIN f) \cup {name} |-> IF x = name THEN v ELSE f[x]]

define(st, env, name, value) ==
    [st EXCEPT !.envs[env].values = Put(@, name, value)]

\* an assignment that binds the name in the environment it is evaluated in,
\* as define does
assign_Here(st, env, name, value) == define(st, env, name, value)

RECURSIVE Resolve(_, _, _)
\* the nearest environment on the parent chain of env that has name, 0 if none
Resolve(envs, env, name) ==
    IF env = 0 THEN 0
    ELSE IF Has(envs[env].values, name) THEN env
    ELSE Resolve(envs, envs[env].parent, name)

\* Environment::get, as [found, value]
get(st, env, name) ==
    LET e == Resolve(st.envs, env, name)
    IN  IF e = 0 THEN [found |-> FALSE, value |-> NoneObj]
        ELSE [found |-> TRUE, value |-> st.envs[e].values[name]]

\* Environment::assign: overwrite in the nearest environment that has name
assign(st, env, name, value) ==
    LET e == Resolve(st.envs, env, name)
    IN  IF e = 0 THEN st
        ELSE [st EXCEPT !.envs[e].values = Put(@, name, value)]

\* a registration that keeps the entry the name already has
set_watch_First(st, env, expressions, watch_env, name) ==
    IF Has(st.envs[env].watch, name) THEN st
    ELSE [st EXCEPT !.envs[env].watch =
             Put(@, name, [expressions |-> expressions, env |-> watch_env])]

\* Environment::set_watch: HashMap::insert, the entry of the name is replaced
set_watch(st, env, expressions, watch_env, name) ==
    [st EXCEPT !.envs[env].watch =
        Put(@, name, [expressions |-> expressions, env |-> watch_env])]

\* ---------------------------------------------------------------- arrays

ObjectElement(obj) == [key |-> FALSE, name |-> "", obj |-> obj]
KeyElement(name) == [key |-> TRUE, name |-> name, obj |-> NoneObj]

\* Rc::new(Array{..}); eb / mb count the outstanding RefCell borrows of
\* elements / map
NewArray(st, elements, map) ==
    [st EXCEPT !.arrays =
        Append(@, [elements |-> elements, map |-> map, eb |-> 0, mb |-> 0])]

\* Array.elements.borrow() / guard drop, Array.map.borrow() / guard drop
BorrowElements(st, ref, by) == [st EXCEPT !.arrays[ref].eb = @ + by]
BorrowMap(st, ref, by) == [st EXCEPT !.arrays[ref].mb = @ + by]

\* ---------------------------------------------------------------- i32

I32Max == 2147483647
I32Min == -I32Max - 1

\* l + r, l - r, l * r leave i32 (decided without leaving it)
AddOverflows(l, r) == (r > 0 /\ l > I32Max - r) \/ (r < 0 /\ l < I32Min - r)
SubOverflows(l, r) == (r < 0 /\ l > I32Max + r) \/ (r > 0 /\ l < I32Min + r)

\* floor(2^31 / l) for l > 0
NegLimit(l) == (I32Max \div l) + (IF I32Max % l = l - 1 THEN 1 ELSE 0)

MulOverflows(l, r) ==
    CASE l = 0 \/ r = 0 -> FALSE
      [] l > 0 /\ r > 0 -> l > I32Max \div r
      [] l < 0 /\ r < 0 -> l = I32Min \/ r = I32Min \/ (-l) > I32Max \div (-r)
      [] l > 0 /\ r < 0 -> IF r = I32Min THEN l > 1 ELSE (-r) > NegLimit(l)
      [] l < 0 /\ r > 0 -> IF l = I32Min THEN r > 1 ELSE (-l) > NegLimit(r)

\* Rust `/` and `%` on i32 truncate toward zero
TruncDivPos(a, b) ==
    IF a >= 0 THEN a \div b ELSE (a \div b) + (IF a % b # 0 THEN 1 ELSE 0)
TruncDiv(a, b) ==
    IF b > 0 THEN TruncDivPos(a, b)
    ELSE IF b = I32Min THEN (IF a = I32Min THEN 1 ELSE 0)
    ELSE -TruncDivPos(a, -b)
TruncRem(a, b) == a - b * TruncDiv(a, b)

\* ---------------------------------------------------------------- ast

NumberLiteral(value) == [t |-> "NumberLiteral", value |-> value]
BooleanLiteral(value) == [t |-> "BooleanLiteral", value |-> value]
StringLit(value) == [t |-> "StringLiteral", value |-> value]
Identifier(value) == [t |-> "Identifier", value |-> value]
InfixExpression(left, operator, right) ==
    [t |-> "InfixExpression", left |-> left, operator |-> operator, right |-> right]
BlockExpression(statements) == [t |-> "BlockExpression", statements |-> statements]
FunctionLiteral(parameters, statements) ==
    [t |-> "FunctionLiteral", parameters |-> parameters, body |-> BlockExpression(statements)]
CallExpression(left, arguments) ==
    [t |-> "CallExpression", left |-> left, arguments |-> arguments]
\* alternative is <<>> for None and <<block>> for Some(block)
IfExpression(condition, consequence, alternative) ==
    [t |-> "IfExpression", condition |-> condition,
     consequence |-> BlockExpression(consequence), alternative |-> alternative]
\* ArrayMapValue::Value(e) and ArrayMapValue::MapKeyValue{key, value}
Value(e) == [keyed |-> FALSE, key |-> "", value |-> e]
MapKeyValue(key, e) == [keyed |-> TRUE, key |-> key, value |-> e]
ArrayLiteral(elements) == [t |-> "ArrayLiteral", elements |-> elements]
ElementAccessExpression(left, index) ==
    [t |-> "ElementAccessExpression", left |-> left, index |-> index]
ForExpression(variable, iterable, statements) ==
    [t |-> "ForExpression", variable |-> variable, iterable |-> iterable,
     body |-> BlockExpression(statements)]
Case(condition, statements) == [condition |-> condition, body |-> BlockExpression(statements)]
\* default is <<>> for None and <<block>> for Some(Default{body})
SwitchExpression(expression, cases, default) ==
    [t |-> "SwitchExpression", expression |-> expression, cases |-> cases, default |-> default]
Assign(left, right) == [t |-> "Assign", left |-> left, right |-> right]

VariableDeclaration(name, value) == [t |-> "VariableDeclaration", name |-> name, value |-> value]
ExpressionStatement(e) == [t |-> "Expression", value |-> e]
ReturnStatement(value) == [t |-> "ReturnStatement", value |-> value]
BlockReturnStatement(value) == [t |-> "BlockReturnStatement", value |-> value]
WatchDeclaration(name, statements) ==
    [t |-> "WatchDeclaration", name |-> name, block |-> BlockExpression(statements)]

\* ---------------------------------------------------------------- lexer

\* One step of Token::lexer(source) yields Ok(token) or Err(()) for the next
\* chunk of the text.  A source text is the sequence of these chunks: each is
\* [token, slice], with token "Error" for a chunk no rule of Token matches.
Lexeme(token, slice) == [token |-> token, slice |-> slice]

\* logos Lexer::next: item is <<>> for None and <<lexeme>> for Some(..)
Lexer_next(lexer) ==
    IF lexer.pos < Len(lexer.source)
    THEN [lexer |-> [lexer EXCEPT !.pos = @ + 1], item |-> <<lexer.source[lexer.pos + 1]>>]
    ELSE [lexer |-> lexer, item |-> <<>>]

\* Peekable::new
Peekable_new(source) ==
    [lexer |-> [source |-> source, pos |-> 0],
     peeked |-> <<>>, peeked_slice |-> <<>>,
     current |-> <<>>, current_slice |-> <<>>,
     is_newline |-> FALSE]

\* Peekable::peek, one `next = self.lexer.next()`; skip is the state of the
\* loops: the lexer, the last item read (<<>> for None) and is_newline
peek_advance(skip, is_newline) ==
    [lexer |-> Lexer_next(skip.lexer).lexer, next |-> Lexer_next(skip.lexer).item,
     is_newline |-> is_newline]

RECURSIVE peek_comment(_)
\* Peekable::peek, the inner loop: drop what follows `//` up to and including
\* the next Newline
peek_comment(skip) ==
    IF skip.next = <<>> THEN skip
    ELSE IF skip.next[1].token = "Newline" THEN peek_advance(skip, TRUE)
    ELSE peek_comment(peek_advance(skip, skip.is_newline))

RECURSIVE peek_skip(_)
\* Peekable::peek, the outer loop: skip Newline and Comment
peek_skip(skip) ==
    IF skip.next = <<>> THEN skip
    ELSE CASE skip.next[1].token = "Newline" -> peek_skip(peek_advance(skip, TRUE))
           [] skip.next[1].token = "Comment" ->
                peek_skip(peek_comment(peek_advance(skip, skip.is_newline)))
           [] OTHER -> skip

\* Peekable::peek, `if let Some(Ok(token)) = next`: the item kept in peeked,
\* none for the end of the text and for an Err chunk
peek_found(next) == IF next # <<>> /\ next[1].token # "Error" THEN next ELSE <<>>

\* Peekable::peek, the assignments to self after the loops
peek_store(p, skipped) ==
    [p EXCEPT !.lexer = skipped.lexer,
              !.is_newline = skipped.is_newline,
              !.peeked = [i \in DOMAIN peek_found(skipped.next) |->
                              peek_found(skipped.next)[i].token],
              !.peeked_slice = [i \in DOMAIN peek_found(skipped.next) |->
                                    peek_found(skipped.next)[i].slice]]

\* Peekable::peek, `self.peeked.as_ref()`
peek_as_ref(p) == [p |-> p, token |-> p.peeked]

\* Peekable::peek, as [p, token]: p the Peekable afterwards, token the
\* Option<&Token> returned (<<>> for None).  An Err chunk is consumed and
\* leaves peeked empty.
Peekable_peek(p) ==
    IF p.peeked # <<>> THEN peek_as_ref(p)
    ELSE peek_as_ref(peek_store(p, peek_skip(peek_advance([lexer |-> p.lexer, next |-> <<>>,
                                                           is_newline |-> p.is_newline],
                                                          p.is_newline))))

\* Iterator::next for Peekable, `self.peeked.take()` with its bookkeeping
next_take(p) ==
    IF p.peeked # <<>>
    THEN [p |-> [p EXCEPT !.current = p.peeked, !.current_slice = p.peeked_slice,
                          !.peeked = <<>>, !.peeked_slice = <<>>],
          token |-> p.peeked]
    ELSE [p |-> p, token |-> <<>>]

\* Iterator::next for Peekable, as [p, token]
Peekable_next(p) == next_take(IF p.peeked = <<>> THEN Peekable_peek(p).p ELSE p)

\* ---------------------------------------------------------------- parser

\* enum Precedence, by its derived order
Precedence ==
    [Lowest |-> 0, Assign |-> 1, LogicalOr |-> 2, LogicalAnd |-> 3, Equals |-> 4,
     LessGreater |-> 5, Sum |-> 6, Product |-> 7, Prefix |-> 8, Call |-> 9, Index |-> 10,
     Factorial |-> 11]

is_lower_than(precedence, other) == precedence < other

\* Precedence::get_precedence: the first arm that matches (Minus is Sum)
get_precedence(token) ==
    CASE token = "Assign" -> Precedence.Assign
      [] token = "Or" -> Precedence.LogicalOr
      [] token = "And" -> Precedence.LogicalAnd
      [] token \in {"Equal", "NotEqual"} -> Precedence.Equals
      [] token \in {"LessThan", "LessThanOrEqual", "GreaterThan", "GreaterThanOrEqual"} ->
           Precedence.LessGreater
      [] token \in {"Plus", "Minus"} -> Precedence.Sum
      [] token \in {"Asterisk", "Slash", "Percent"} -> Precedence.Product
      [] token = "Bang" -> Precedence.Prefix
      [] token = "LParen" -> Precedence.Call
      [] token = "LBracket" -> Precedence.Index
      [] OTHER -> Precedence.Lowest

\* the tokens Operator::get_operator has an arm for; the Operator is named as
\* the token
Operators ==
    {"Plus", "Minus", "Asterisk", "Slash", "Percent", "Equal", "NotEqual", "LessThan",
     "LessThanOrEqual", "GreaterThan", "GreaterThanOrEqual", "And", "Or", "Bang"}

\* Result<_, ParseError> with the Peekable as the call leaves it: err is "ok",
\* "err" (Err(ParseError{message: msg})) or "panic"
POk(p, node) == [p |-> p, err |-> "ok", node |-> node, msg |-> ""]
PErr(p, msg) == [p |-> p, err |-> "err", node |-> <<>>, msg |-> msg]
PPanic(p, msg) == [p |-> p, err |-> "panic", node |-> <<>>, msg |-> msg]

PIsOk(r) == r.err = "ok"

\* A function of the parser runs as a chain of steps on a Result r: r.p is the
\* Peekable the step starts from and r.node the parts parsed so far.  A step
\* on an Err or a panic returns it as it is, as `?` and `return Err(..)` do.
Start(p) == POk(p, <<>>)

push(r, parsed) == IF ~PIsOk(parsed) THEN parsed ELSE POk(parsed.p, Append(r.node, parsed.node))

\* the only part of the chain
only(r) == IF ~PIsOk(r) THEN r ELSE POk(r.p, r.node[1])

\* `match lexer.next() { Some(Token::T) => {} _ => return Err(..) }`
expect(r, token, msg) ==
    IF ~PIsOk(r) THEN r
    ELSE IF Peekable_next(r.p).token = <<token>> THEN POk(Peekable_next(r.p).p, r.node)
    ELSE PErr(Peekable_next(r.p).p, msg)

\* `match lexer.next() { Some(Token::Identifier) => {} _ => return Err(..) }`
\* and `lexer.current_slice.unwrap().to_string()`
expect_identifier(r, msg) ==
    IF ~PIsOk(r) THEN r
    ELSE IF Peekable_next(r.p).token = <<"Identifier">>
         THEN POk(Peekable_next(r.p).p, Append(r.node, Peekable_next(r.p).p.current_slice[1]))
    ELSE PErr(Peekable_next(r.p).p, msg)

\* `match lexer.peek() { Some(Token::T) => {} _ => return Err(..) }`
expect_peek(r, token, msg) ==
    IF ~PIsOk(r) THEN r
    ELSE IF Peekable_peek(r.p).token = <<token>> THEN POk(Peekable_peek(r.p).p, r.node)
    ELSE PErr(Peekable_peek(r.p).p, msg)

\* `while peeked.is_some() && peeked.as_ref().unwrap() != &closing`: the loop
\* is over
at_end(peeked, closing) == peeked.token = <<>> \/ peeked.token[1] \in closing

\* `if peeked == Some(Token::Comma) { lexer.next(); }`
skip_comma(r) ==
    IF ~PIsOk(r) THEN r
    ELSE IF Peekable_peek(r.p).token = <<"Comma">>
         THEN POk(Peekable_next(Peekable_peek(r.p).p).p, r.node)
    ELSE POk(Peekable_peek(r.p).p, r.node)

RECURSIVE DigitsValue(_, _)
\* str::parse::<i32> on a slice of [0-9]+, given as its digits: -1 when the
\* number does not fit i32
DigitsValue(digits, acc) ==
    IF digits = <<>> THEN acc
    ELSE IF acc > (I32Max - Head(digits)) \div 10 THEN -1
    ELSE DigitsValue(Tail(digits), acc * 10 + Head(digits))

RECURSIVE Concat(_)
\* the String of a sequence of characters
Concat(chars) == IF chars = <<>> THEN "" ELSE Head(chars) \o Concat(Tail(chars))

\* value[1..value.len() - 1]: the slice of a string token without its quotes
Unquote(chars) == Concat(SubSeq(chars, 2, Len(chars) - 1))

\* One function of the parser applied to the Peekable, by its name:
\* parse_expression with its precedence, parse_statement, parse_block_statement
\* or one of the loops.  Every call of one function of the parser to another
\* that may call it back goes through here.
RECURSIVE parse_node(_, _, _)
RECURSIVE parse_expression_loop(_, _, _)
RECURSIVE parse_statements_loop(_)
RECURSIVE parse_parameters_loop(_)
RECURSIVE parse_arguments_loop(_)
RECURSIVE parse_comma_separated_loop(_)
RECURSIVE parse_cases_loop(_)

parse_expression(p, precedence) == parse_node("parse_expression", p, precedence)

parse_statement(p) == parse_node("parse_statement", p, Precedence.Lowest)

parse_block_statement(p) == parse_node("parse_block_statement", p, Precedence.Lowest)

\* `match parse_x(lexer) { Ok(x) => x, Err(error) => return Err(error) }`: the
\* next part of the chain is what the function named parses
and_then(r, function, precedence) ==
    IF ~PIsOk(r) THEN r ELSE push(r, parse_node(function, r.p, precedence))

\* the node a function of the parser returns, of the parts it has parsed
node_of(variant, parts, left) ==
    CASE variant = "BlockExpression" -> BlockExpression(parts[1])
      [] variant = "FunctionLiteral" -> FunctionLiteral(parts[1], parts[2])
      [] variant = "CallExpression" -> CallExpression(left, parts[1])
      [] variant = "ReturnStatement" -> ReturnStatement(parts[1])
      [] variant = "ArrayLiteral" -> ArrayLiteral(parts[1])
      [] variant = "ElementAccessExpression" -> ElementAccessExpression(left, parts[1])
      [] variant = "ForExpression" -> ForExpression(parts[1], parts[2], parts[3].statements)
      [] variant = "Case" -> Case(parts[1], parts[2].statements)
      [] variant = "SwitchExpression" -> SwitchExpression(parts[1], parts[2], parts[3])
      [] variant = "WatchDeclaration" -> WatchDeclaration(parts[1], parts[2].statements)
      [] variant = "VariableDeclaration" -> VariableDeclaration(parts[1], parts[2])
      [] variant = "Assign" -> Assign(left, parts[1])

\* `Ok(ast::Variant { .. })` at the end of a function of the parser
build(r, variant, left) ==
    IF ~PIsOk(r) THEN r ELSE POk(r.p, node_of(variant, r.node, left))

\* the loop of parse_function_expression and parse_block_statement over the
\* statements up to `}`; r.node is the statements so far
parse_statements_loop(r) ==
    IF ~PIsOk(r) THEN r
    ELSE IF at_end(Peekable_peek(r.p), {"RBrace"}) THEN POk(Peekable_peek(r.p).p, r.node)
    ELSE parse_statements_loop(push(r, parse_statement(Peekable_peek(r.p).p)))

\* fn parse_block_statement
parse_block_statement_fn(p) ==
    build(expect(and_then(expect(Start(p), "LBrace", "expected {"),
                          "statements", Precedence.Lowest),
                 "RBrace", "expected }"),
          "BlockExpression", <<>>)

\* the loop of parse_function_expression over the parameters up to `)`
parse_parameters_loop(r) ==
    IF ~PIsOk(r) THEN r
    ELSE IF at_end(Peekable_peek(r.p), {"RParen"}) THEN POk(Peekable_peek(r.p).p, r.node)
    ELSE parse_parameters_loop(
             skip_comma(expect_identifier(POk(Peekable_peek(r.p).p, r.node),
                                          "expected identifier")))

parse_function_expression(p) ==
    build(expect(and_then(
                     expect(expect(and_then(
                                       expect(expect(Start(p), "Function", "expected function"),
                                              "LParen", "expected ("),
                                       "parameters", Precedence.Lowest),
                                   "RParen", "expected )"),
                            "LBrace", "expected {"),
                     "statements", Precedence.Lowest),
                 "RBrace", "expected }"),
          "FunctionLiteral", <<>>)

\* the loop of parse_call_expression over the arguments up to `)`
parse_arguments_loop(r) ==
    IF ~PIsOk(r) THEN r
    ELSE IF at_end(Peekable_peek(r.p), {"RParen"}) THEN POk(Peekable_peek(r.p).p, r.node)
    ELSE parse_arguments_loop(
             skip_comma(and_then(POk(Peekable_peek(r.p).p, r.node),
                                 "parse_expression", Precedence.Lowest)))

parse_call_expression(p, left) ==
    build(expect(and_then(expect(Start(p), "LParen", "expected ("),
                          "arguments", Precedence.Lowest),
                 "RParen", "expected )"),
          "CallExpression", left)

parse_return_statement(p) ==
    build(and_then(expect(Start(p), "Return", "expected return"),
                   "parse_expression", Precedence.Lowest),
          "ReturnStatement", <<>>)

\* parse_if_expression, the IfExpression built after `else`
IfExpression_else(condition, consequence, alternative) ==
    IF alternative.err = "panic" THEN alternative
    ELSE IF ~PIsOk(consequence) \/ ~PIsOk(alternative)
         THEN PPanic(alternative.p, "called unwrap on an Err value")
    ELSE POk(alternative.p,
             IfExpression(condition, consequence.node.statements, <<alternative.node>>))

if_alternative(condition, consequence, lbrace) ==
    IF ~PIsOk(lbrace) THEN lbrace
    ELSE IfExpression_else(condition, consequence, parse_block_statement(lbrace.p))

\* parse_if_expression, `match lexer.peek()` after the consequence
if_else(condition, consequence, else) ==
    IF else.token = <<>> THEN PErr(else.p, "expected {")
    ELSE IF else.token # <<"Else">>
         THEN IF ~PIsOk(consequence) THEN PPanic(else.p, "called unwrap on an Err value")
              ELSE POk(else.p, IfExpression(condition, consequence.node.statements, <<>>))
    ELSE if_alternative(condition, consequence,
                        expect_peek(Start(Peekable_next(else.p).p), "LBrace", "expected {"))

if_consequence(condition, consequence) ==
    IF consequence.err = "panic" THEN consequence
    ELSE if_else(condition, consequence, Peekable_peek(consequence.p))

if_condition(r) ==
    IF ~PIsOk(r) THEN r ELSE if_consequence(r.node[1], parse_block_statement(r.p))

\* consequence and alternative are unwrapped only when the IfExpression is
\* built: an Err of parse_block_statement is a panic then
parse_if_expression(p) ==
    if_condition(
        expect_peek(
            expect(and_then(expect(expect(Start(p), "If", "expected if"),
                                   "LParen", "expected ("),
                            "parse_expression", Precedence.Lowest),
                   "RParen", "expected )"),
            "LBrace", "expected {"))

parse_array_key(expression) ==
    IF expression.t = "Identifier" THEN <<expression.value>> ELSE <<>>

comma_separated_value(elements, key, value) ==
    IF ~PIsOk(value) THEN value
    ELSE POk(value.p, Append(elements, MapKeyValue(key, value.node)))

comma_separated_colon(elements, expression, colon) ==
    IF colon.token # <<"Colon">> THEN POk(colon.p, Append(elements, Value(expression.node)))
    ELSE IF parse_array_key(expression.node) = <<>> THEN PErr(colon.p, "expected string literal")
    ELSE comma_separated_value(elements, parse_array_key(expression.node)[1],
                               parse_expression(Peekable_next(colon.p).p, Precedence.Lowest))

\* parse_comma_separated, one entry: `e` or `name: e`
comma_separated_entry(elements, expression) ==
    IF ~PIsOk(expression) THEN expression
    ELSE comma_separated_colon(elements, expression, Peekable_peek(expression.p))

\* parse_comma_separated: the loop over the entries up to `]`
parse_comma_separated_loop(r) ==
    IF ~PIsOk(r) THEN r
    ELSE IF at_end(Peekable_peek(r.p), {"RBracket"}) THEN POk(Peekable_peek(r.p).p, r.node)
    ELSE parse_comma_separated_loop(
             skip_comma(comma_separated_entry(
                            r.node, parse_expression(Peekable_peek(r.p).p, Precedence.Lowest))))

parse_comma_separated(p) == parse_comma_separated_loop(Start(p))

parse_array_literal(p) ==
    build(expect(and_then(expect(Start(p), "LBracket", "expected ["),
                          "parse_comma_separated", Precedence.Lowest),
                 "RBracket", "expected ]"),
          "ArrayLiteral", <<>>)

parse_element_access_expression(p, left) ==
    build(expect(and_then(expect(Start(p), "LBracket", "expected ["),
                          "parse_expression", Precedence.Lowest),
                 "RBracket", "expected ]"),
          "ElementAccessExpression", left)

parse_for_expression(p) ==
    build(and_then(
              expect(and_then(
                         expect(expect_identifier(
                                    expect(expect(Start(p), "For", "expected for"),
                                           "LParen", "expected ("),
                                    "expected identifier"),
                                "In", "expected in"),
                         "parse_expression", Precedence.Lowest),
                     "RParen", "expected )"),
              "parse_block_statement", Precedence.Lowest),
          "ForExpression", <<>>)

parse_case(p) ==
    build(and_then(
              expect(and_then(expect(Start(p), "Case", "expected case"),
                              "parse_expression", Precedence.Lowest),
                     "Colon", "expected :"),
              "parse_block_statement", Precedence.Lowest),
          "Case", <<>>)

parse_default(p) ==
    only(and_then(expect(expect(Start(p), "Default", "expected default"),
                         "Colon", "expected :"),
                  "parse_block_statement", Precedence.Lowest))

\* the loop of parse_switch_expression over the cases up to `default` or `}`
parse_cases_loop(r) ==
    IF ~PIsOk(r) THEN r
    ELSE IF at_end(Peekable_peek(r.p), {"RBrace", "Default"})
         THEN POk(Peekable_peek(r.p).p, r.node)
    ELSE parse_cases_loop(push(r, parse_case(Peekable_peek(r.p).p)))

some(parsed) == IF ~PIsOk(parsed) THEN parsed ELSE POk(parsed.p, <<parsed.node>>)

\* parse_switch_expression, the default: Some(..) if `default` is peeked
and_default(r) ==
    IF ~PIsOk(r) THEN r
    ELSE IF Peekable_peek(r.p).token # <<"Default">>
         THEN POk(Peekable_peek(r.p).p, Append(r.node, <<>>))
    ELSE push(r, some(parse_default(r.p)))

parse_switch_expression(p) ==
    build(expect(and_default(
                     and_then(
                         expect(expect(and_then(
                                           expect(expect(Start(p), "Switch", "expected switch"),
                                                  "LParen", "expected ("),
                                           "parse_expression", Precedence.Lowest),
                                       "RParen", "expected )"),
                                "LBrace", "expected {"),
                         "cases", Precedence.Lowest)),
                 "RBrace", "expected }"),
          "SwitchExpression", <<>>)

parse_watch_declaration(p) ==
    build(and_then(
              expect(expect_identifier(expect(Start(p), "Watch", "expected watch"),
                                       "expected identifier"),
                     "Assign", "expected assign"),
              "parse_block_statement", Precedence.Lowest),
          "WatchDeclaration", <<>>)

\* parse_variable_declaration, `match lexer.next() { Some(Token::Assign) => {} Some(token) => .. None => .. }`
expect_assign(r) ==
    IF ~PIsOk(r) THEN r
    ELSE IF Peekable_next(r.p).token = <<>> THEN PErr(Peekable_next(r.p).p, "expected assign")
    ELSE IF Peekable_next(r.p).token # <<"Assign">>
         THEN PErr(Peekable_next(r.p).p,
                   "expected assign after " \o r.node[1] \o " but got "
                       \o Peekable_next(r.p).token[1])
    ELSE POk(Peekable_next(r.p).p, r.node)

parse_variable_declaration(p) ==
    build(and_then(
              expect_assign(expect_identifier(expect(Start(p), "Let", "expected let"),
                                              "expected identifier")),
              "parse_expression", Precedence.Lowest),
          "VariableDeclaration", <<>>)

parse_assign(p, left) ==
    build(and_then(Start(Peekable_next(p).p), "parse_expression", Precedence.Lowest),
          "Assign", left)

\* parse_infix_expression, `Ok(ast::InfixExpression { .. })` with
\* Operator::get_operator, which panics on any other token
InfixExpression_of(right, left, operator) ==
    IF ~PIsOk(right) THEN right
    ELSE IF operator \notin Operators THEN PPanic(right.p, "unexpected token")
    ELSE POk(right.p, InfixExpression(left, operator, right.node))

\* an infix whose right operand is parsed from the lowest level, as the right
\* side of an assignment is
parse_infix_expression_Lowest(p, left) ==
    IF Peekable_next(p).token = <<>> THEN PErr(Peekable_next(p).p, "unexpected end of file")
    ELSE InfixExpression_of(parse_expression(Peekable_next(p).p, Precedence.Lowest),
                            left, Peekable_next(p).token[1])

\* parse_infix_expression: the right operand is parsed at the operator's own
\* level
parse_infix_expression(p, left) ==
    IF Peekable_next(p).token = <<>> THEN PErr(Peekable_next(p).p, "unexpected end of file")
    ELSE InfixExpression_of(
             parse_expression(Peekable_next(p).p, get_precedence(Peekable_next(p).token[1])),
             left, Peekable_next(p).token[1])

NumberLiteral_of(p, value) ==
    IF value < 0 THEN PPanic(p, "called unwrap on an Err value") ELSE POk(p, NumberLiteral(value))

\* parse_expression, `match lexer.peek()`: next is the token peeked and taken
\* the Peekable after `lexer.next()`
prefix_token(next, taken) ==
    CASE next.token = <<"Number">> -> NumberLiteral_of(taken, DigitsValue(taken.current_slice[1], 0))
      [] next.token = <<"Identifier">> -> POk(taken, Identifier(taken.current_slice[1]))
      [] next.token = <<"Function">> -> parse_function_expression(next.p)
      [] next.token = <<"If">> -> parse_if_expression(next.p)
      [] next.token = <<"True">> -> POk(taken, BooleanLiteral(TRUE))
      [] next.token = <<"False">> -> POk(taken, BooleanLiteral(FALSE))
      [] next.token = <<"String">> -> POk(taken, StringLit(Unquote(taken.current_slice[1])))
      [] next.token = <<"LBracket">> -> parse_array_literal(next.p)
      [] next.token = <<"LParen">> ->
           only(expect(and_then(Start(taken), "parse_expression", Precedence.Lowest),
                       "RParen", "expected )"))
      [] next.token = <<"For">> -> parse_for_expression(next.p)
      [] next.token = <<"Switch">> -> parse_switch_expression(next.p)
      [] next.token = <<"LBrace">> -> parse_block_statement(next.p)
      [] OTHER -> PErr(Peekable_peek(next.p).p, "unexpected token")

\* parse_expression: the prefix position
parse_prefix(p) == prefix_token(Peekable_peek(p), Peekable_next(Peekable_peek(p).p).p)

expression_next(expression, precedence) ==
    IF ~PIsOk(expression) THEN expression
    ELSE parse_expression_loop(expression.p, precedence, expression.node)

expression_peeked(peeked, precedence, left) ==
    IF \/ peeked.token = <<>>
       \/ peeked.token = <<"Semicolon">>
       \/ ~is_lower_than(precedence, get_precedence(peeked.token[1]))
    THEN POk(peeked.p, left)
    ELSE expression_next(
             CASE peeked.token = <<"LParen">> -> parse_call_expression(peeked.p, left)
               [] peeked.token = <<"LBracket">> ->
                    parse_element_access_expression(peeked.p, left)
               [] peeked.token = <<"Assign">> -> parse_assign(peeked.p, left)
               [] OTHER -> parse_infix_expression(peeked.p, left),
             precedence)

\* parse_expression: the loop over the infix and postfix tokens that bind
\* tighter than precedence
parse_expression_loop(p, precedence, left) ==
    expression_peeked(Peekable_peek(p), precedence, left)

expression_left(left, precedence) ==
    IF ~PIsOk(left) THEN left ELSE parse_expression_loop(left.p, precedence, left.node)

\* pub fn parse_expression
parse_expression_fn(p, precedence) == expression_left(parse_prefix(p), precedence)

\* `match lexer.peek() { Some(Token::Semicolon) => { lexer.next(); } _ => return Err(..) }`
expect_semicolon(statement) ==
    IF ~PIsOk(statement) THEN statement
    ELSE IF Peekable_peek(statement.p).token = <<"Semicolon">>
         THEN POk(Peekable_next(Peekable_peek(statement.p).p).p, statement.node)
    ELSE PErr(Peekable_peek(statement.p).p, "expected semicolon")

\* parse_statement, an expression: a statement with `;` after it, the value
\* of its block without
statement_expression(expression) ==
    IF ~PIsOk(expression) THEN expression
    ELSE IF Peekable_peek(expression.p).token = <<"Semicolon">>
         THEN POk(Peekable_next(Peekable_peek(expression.p).p).p,
                  ExpressionStatement(expression.node))
    ELSE POk(Peekable_peek(expression.p).p, BlockReturnStatement(expression.node))

statement_token(token) ==
    CASE token.token = <<>> -> PErr(token.p, "unexpected end of file")
      [] token.token = <<"Let">> -> expect_semicolon(parse_variable_declaration(token.p))
      [] token.token = <<"Return">> -> expect_semicolon(parse_return_statement(token.p))
      [] token.token = <<"Watch">> -> expect_semicolon(parse_watch_declaration(token.p))
      [] OTHER -> statement_expression(parse_expression(token.p, Precedence.Lowest))

\* pub fn parse_statement
parse_statement_fn(p) == statement_token(Peekable_peek(p))

parse_node(function, p, precedence) ==
    CASE function = "parse_expression" -> parse_expression_fn(p, precedence)
      [] function = "parse_statement" -> parse_statement_fn(p)
      [] function = "parse_block_statement" -> parse_block_statement_fn(p)
      [] function = "parse_comma_separated" -> parse_comma_separated(p)
      [] function = "statements" -> parse_statements_loop(Start(p))
      [] function = "parameters" -> parse_parameters_loop(Start(p))
      [] function = "arguments" -> parse_arguments_loop(Start(p))
      [] function = "cases" -> parse_cases_loop(Start(p))

RECURSIVE parse_loop(_)
\* parse: the loop over the statements of the program
parse_loop(r) ==
    IF ~PIsOk(r) THEN r
    ELSE IF Peekable_peek(r.p).token = <<>> THEN POk(Peekable_peek(r.p).p, r.node)
    ELSE parse_loop(push(r, parse_statement(Peekable_peek(r.p).p)))

\* parse: Ok(Program{statements}) or the first Err
parse(p) == parse_loop(Start(p))

\* ---------------------------------------------------------------- evaluator

\* Evaluator::eval on a node of the tree: the impl of the node's own type.
\* Every evaluation of a child node goes through it.
RECURSIVE eval(_, _, _, _)
RECURSIVE BlockExpression_loop(_, _, _, _, _, _, _)
RECURSIVE CallExpression_bind(_, _, _, _, _, _, _)
RECURSIVE CallExpression_args(_, _, _, _, _, _)
RECURSIVE ArrayLiteral_loop(_, _, _, _, _, _, _, _)
RECURSIVE ForExpression_loop(_, _, _, _, _, _, _)
RECURSIVE SwitchExpression_cases(_, _, _, _, _, _, _)

\* impl Evaluator for InfixExpression, the (Number, Number) arm; arithmetic
\* that leaves i32 or divides by zero panics (debug build)
InfixNumbers(st, operator, l, r) ==
    CASE operator = "Plus" ->
           IF AddOverflows(l, r) THEN Panic(st, "attempt to add with overflow")
           ELSE Ok(st, Number(l + r))
      [] operator = "Minus" ->
           IF SubOverflows(l, r) THEN Panic(st, "attempt to subtract with overflow")
           ELSE Ok(st, Number(l - r))
      [] operator = "Asterisk" ->
           IF MulOverflows(l, r) THEN Panic(st, "attempt to multiply with overflow")
           ELSE Ok(st, Number(l * r))
      [] operator = "Slash" ->
           IF r = 0 THEN Panic(st, "attempt to divide by zero")
           ELSE IF l = I32Min /\ r = -1 THEN Panic(st, "attempt to divide with overflow")
           ELSE Ok(st, Number(TruncDiv(l, r)))
      [] operator = "Percent" ->
           IF r = 0 THEN Panic(st, "attempt to calculate the remainder with a divisor of zero")
           ELSE IF l = I32Min /\ r = -1
                THEN Panic(st, "attempt to calculate the remainder with overflow")
           ELSE Ok(st, Number(TruncRem(l, r)))
      [] operator = "Equal" -> Ok(st, Boolean(l = r))
      [] operator = "NotEqual" -> Ok(st, Boolean(l # r))
      [] operator = "LessThan" -> Ok(st, Boolean(l < r))
      [] operator = "LessThanOrEqual" -> Ok(st, Boolean(l <= r))
      [] operator = "GreaterThan" -> Ok(st, Boolean(l > r))
      [] operator = "GreaterThanOrEqual" -> Ok(st, Boolean(l >= r))
      [] operator = "And" -> Ok(st, Boolean(l # 0 /\ r # 0))
      [] operator = "Or" -> Ok(st, Boolean(l # 0 \/ r # 0))
      [] operator = "Bang" -> Ok(st, Boolean(l = 0))

\* impl Evaluator for InfixExpression, after both operands are evaluated
InfixApply(st, operator, left, right) ==
    CASE Variant(left) = "Number" /\ Variant(right) = "Number" ->
           InfixNumbers(st, operator, left.n, right.n)
      [] Variant(left) = "StringLiteral" /\ Variant(right) = "StringLiteral" ->
           CASE operator = "Plus" -> Ok(st, StringLiteral(left.s \o right.s))
             [] operator = "Equal" -> Ok(st, Boolean(left.s = right.s))
             [] operator = "NotEqual" -> Ok(st, Boolean(left.s # right.s))
             [] OTHER -> Err(st, "invalid operator")
      [] Variant(left) = "Boolean" /\ Variant(right) = "Boolean" ->
           CASE operator = "Equal" -> Ok(st, Boolean(left.n = right.n))
             [] operator = "NotEqual" -> Ok(st, Boolean(left.n # right.n))
             [] OTHER -> Err(st, "invalid operator")
      [] OTHER -> Err(st, "invalid operator")

InfixExpression_eval(node, env, option, st) ==
    LET left == eval(node.left, env, option, st)
    IN  IF ~IsOk(left) THEN left
        ELSE LET right == eval(node.right, env, option, left.st)
             IN  IF ~IsOk(right) THEN right
                 ELSE InfixApply(right.st, node.operator, left.val, right.val)

\* impl Evaluator for Identifier.  option is <<>> for EvalOption{watch: None}
\* and <<[declaration, env]>> for Some(Watch{declaration, env}).
Identifier_eval(node, env, option, st) ==
    LET st1 == IF option # <<>>
               THEN set_watch(st, env, option[1].declaration, option[1].env, node.value)
               ELSE st
        value == get(st1, env, node.value)
    IN  IF value.found
        THEN Ok(Log(st1, Event("read", st1.depth, Resolve(st1.envs, env, node.value), env,
                               node.value, value.value)),
                value.value)
        ELSE Err(st1, "variable not found " \o node.value)

\* a literal that is evaluated in env and keeps a private copy of it instead
\* of the shared Rc
FunctionLiteral_eval_Snapshot(node, env, option, st) ==
    LET st1 == [st EXCEPT !.envs = Append(@, st.envs[env])]
    IN  Ok(st1, [Function(node.parameters, node.body, Len(st1.envs)) EXCEPT !.n = env])

\* impl Evaluator for FunctionLiteral: env: Rc::clone(env).  The n field of
\* the object records the environment the literal was evaluated in (ghost).
FunctionLiteral_eval(node, env, option, st) ==
    Ok(st, [Function(node.parameters, node.body, env) EXCEPT !.n = env])

\* entering / leaving a nested evaluation frame (a closure body or a watch
\* re-evaluation): depth counts the frames, loops the enclosing for bodies,
\* watching the enclosing watch blocks of the current frame
Enter(st) == [st EXCEPT !.depth = @ + 1, !.loops = 0, !.watching = 0]
Leave(st, outer) ==
    [st EXCEPT !.depth = outer.depth, !.loops = outer.loops, !.watching = outer.watching]

\* impl Evaluator for CallExpression, the Function arm: the parameter loop.
\* Only as many arguments as there are parameters are evaluated, each in the
\* caller's environment; a missing argument is arguments.get(index).unwrap().
CallExpression_bind(parameters, arguments, index, env, function_env, option, st) ==
    IF index > Len(parameters) THEN Ok(st, NoneObj)
    ELSE IF index > Len(arguments) THEN Panic(st, "unwrap on None")
    ELSE LET value == eval(arguments[index], env, option, st)
         IN  IF ~IsOk(value) THEN value
             ELSE CallExpression_bind(parameters, arguments, index + 1, env, function_env, option,
                                      define(value.st, function_env, parameters[index], value.val))

\* impl Evaluator for CallExpression, the BuiltInFunction arm: the argument loop
CallExpression_args(arguments, index, env, option, st, count) ==
    IF index > Len(arguments) THEN Ok(st, Number(count))
    ELSE LET value == eval(arguments[index], env, option, st)
         IN  IF ~IsOk(value) THEN value
             ELSE CallExpression_args(arguments, index + 1, env, option,
                                      Log(value.st, Event("arg", st.depth, 0, index, "", value.val)),
                                      count + 1)

\* builtin::std::print: panics unless it gets exactly one argument
print(st, count) ==
    IF count # 1 THEN Panic(st, "wrong number of arguments") ELSE Ok(st, NullObj)

\* the start of the body of a call (ghost): the environment made for it, the
\* closure called and the environment the call expression is evaluated in
CallEvent(st, function_env, function, env) ==
    [ev |-> "call", d |-> st.depth + 1, n |-> function_env, i |-> function.n, s |-> "",
     val |-> NoneObj, callee |-> function, env |-> env]

\* a call whose body runs in a child of the caller's environment
CallExpression_eval_Dynamic(node, env, option, st) ==
    LET function == eval(node.left, env, option, st)
    IN  IF ~IsOk(function) THEN function
        ELSE CASE Variant(function.val) = "Function" ->
                    LET st1 == NewEnvironment(function.st, env)
                        function_env == Len(st1.envs)
                        bound == CallExpression_bind(function.val.params, node.arguments, 1,
                                                     env, function_env, option, st1)
                    IN  IF ~IsOk(bound) THEN bound
                        ELSE IF bound.st.depth >= MaxDepth THEN Panic(bound.st, "stack overflow")
                        ELSE LET st2 == Log(Enter(bound.st),
                                            CallEvent(bound.st, function_env, function.val, env))
                                 result == eval(function.val.body, function_env, option, st2)
                                 value == IF is_return(result.val) THEN Payload(result.val)
                                          ELSE result.val
                             IN  IF ~IsOk(result) THEN [result EXCEPT !.st = Leave(@, bound.st)]
                                 ELSE Ok(Leave(Log(result.st,
                                                   Event("callret", st2.depth, function_env,
                                                         function.val.n, "", value)),
                                               bound.st),
                                         value)
               [] Variant(function.val) = "BuiltInFunction" ->
                    LET args == CallExpression_args(node.arguments, 1, env, option, function.st, 0)
                    IN  IF ~IsOk(args) THEN args ELSE print(args.st, args.val.n)
               [] OTHER -> Err(function.st, "not a function")

CallExpression_eval(node, env, option, st) ==
    LET function == eval(node.left, env, option, st)
    IN  IF ~IsOk(function) THEN function
        ELSE CASE Variant(function.val) = "Function" ->
                    LET st1 == NewEnvironment(function.st, function.val.env)
                        function_env == Len(st1.envs)
                        bound == CallExpression_bind(function.val.params, node.arguments, 1,
                                                     env, function_env, option, st1)
                    IN  IF ~IsOk(bound) THEN bound
                        ELSE IF bound.st.depth >= MaxDepth THEN Panic(bound.st, "stack overflow")
                        ELSE LET st2 == Log(Enter(bound.st),
                                            CallEvent(bound.st, function_env, function.val, env))
                                 result == eval(function.val.body, function_env, option, st2)
                                 value == IF is_return(result.val) THEN Payload(result.val)
                                          ELSE result.val
                             IN  IF ~IsOk(result) THEN [result EXCEPT !.st = Leave(@, bound.st)]
                                 ELSE Ok(Leave(Log(result.st,
                                                   Event("callret", st2.depth, function_env,
                                                         function.val.n, "", value)),
                                               bound.st),
                                         value)
               [] Variant(function.val) = "BuiltInFunction" ->
                    LET args == CallExpression_args(node.arguments, 1, env, option, function.st, 0)
                    IN  IF ~IsOk(args) THEN args ELSE print(args.st, args.val.n)
               [] OTHER -> Err(function.st, "not a function")

\* the summary of one evaluation of a block (ghost): the number of statements
\* it has, the Result it gives and, for every statement evaluated, its position
\* and its Result
BlockEvent(st, count, err, val, its) ==
    [ev |-> "block", d |-> st.depth, n |-> count, i |-> Len(its), s |-> err,
     val |-> val, its |-> its]

\* a block that hands on the Result of its last statement as it is
BlockExpression_value_Marker(statements, value, ran) ==
    [value EXCEPT !.st = Log(@, BlockEvent(@, Len(statements), value.err, value.val, ran))]

\* impl Evaluator for BlockExpression: the match after the loop
BlockExpression_value(statements, value, ran) ==
    LET result == IF IsOk(value) /\ Variant(value.val) = "BlockReturn"
                  THEN Ok(value.st, Payload(value.val))
                  ELSE value
    IN  [result EXCEPT !.st = Log(@, BlockEvent(@, Len(statements), result.err, result.val, ran))]

\* a loop that does not break on a marker: it evaluates every statement
BlockExpression_loop_RunOn(statements, index, env, option, st, value, ran) ==
    IF index > Len(statements) THEN BlockExpression_value(statements, value, ran)
    ELSE LET next == eval(statements[index], env, option, st)
             ran1 == Append(ran, [i |-> index, err |-> next.err, val |-> next.val])
         IN  IF next.err = "panic" THEN next
             ELSE BlockExpression_loop(statements, index + 1, env, option, next.st, next, ran1)

\* impl Evaluator for BlockExpression: the while loop.  value is the Result
\* of the statement evaluated last; an Err does not leave the loop.  ran is
\* the history of the statements evaluated (ghost).
BlockExpression_loop(statements, index, env, option, st, value, ran) ==
    IF index > Len(statements) THEN BlockExpression_value(statements, value, ran)
    ELSE LET next == eval(statements[index], env, option, st)
             ran1 == Append(ran, [i |-> index, err |-> next.err, val |-> next.val])
         IN  IF next.err = "panic" THEN next
             ELSE IF IsOk(next) /\ is_return_like(next.val)
                  THEN BlockExpression_value(statements, next, ran1)
             ELSE BlockExpression_loop(statements, index + 1, env, option, next.st, next, ran1)

\* a block that opens a scope: its statements run in a child environment
BlockExpression_eval_Scoped(node, env, option, st) ==
    BlockExpression_loop(node.statements, 1, Len(st.envs) + 1, option,
                         NewEnvironment(st, env), Ok(st, NoneObj), <<>>)

\* impl Evaluator for BlockExpression: the statements run in env itself
BlockExpression_eval(node, env, option, st) ==
    BlockExpression_loop(node.statements, 1, env, option, st, Ok(st, NoneObj), <<>>)

IfExpression_eval(node, env, option, st) ==
    LET condition == eval(node.condition, env, option, st)
    IN  IF ~IsOk(condition) THEN condition
        ELSE IF ~is_falsey(condition.val)
             THEN eval(node.consequence, env, option, condition.st)
        ELSE IF node.alternative # <<>>
             THEN eval(node.alternative[1], env, option, condition.st)
        ELSE Ok(condition.st, NoneObj)

\* the summary of one evaluation of an array literal (ghost): the array it
\* made and, for every entry in source order, whether it is keyed, its key and
\* the value its expression had
LiteralEvent(st, ref, entries) ==
    [ev |-> "literal", d |-> st.depth, n |-> ref, i |-> Len(entries), s |-> "",
     val |-> ArrayObj(ref), its |-> entries]

\* a literal whose keyed entries go to the map only and take no slot
ArrayLiteral_loop_MapOnly(elements_ast, index, env, option, st, elements, map_elements, entries) ==
    IF index > Len(elements_ast)
    THEN LET st1 == NewArray(st, elements, map_elements)
         IN  Ok(Log(st1, LiteralEvent(st1, Len(st1.arrays), entries)), ArrayObj(Len(st1.arrays)))
    ELSE LET element == elements_ast[index]
             value == eval(element.value, env, option, st)
             entry == [keyed |-> element.keyed, key |-> element.key, val |-> value.val]
         IN  IF ~IsOk(value) THEN value
             ELSE IF element.keyed
                  THEN ArrayLiteral_loop(elements_ast, index + 1, env, option, value.st,
                                         elements,
                                         Put(map_elements, element.key, value.val),
                                         Append(entries, entry))
             ELSE ArrayLiteral_loop(elements_ast, index + 1, env, option, value.st,
                                    Append(elements, ObjectElement(value.val)),
                                    map_elements, Append(entries, entry))

\* impl Evaluator for ArrayLiteral: the element loop.  entries is the history
\* of the entries evaluated so far (ghost).
ArrayLiteral_loop(elements_ast, index, env, option, st, elements, map_elements, entries) ==
    IF index > Len(elements_ast)
    THEN LET st1 == NewArray(st, elements, map_elements)
         IN  Ok(Log(st1, LiteralEvent(st1, Len(st1.arrays), entries)), ArrayObj(Len(st1.arrays)))
    ELSE LET element == elements_ast[index]
             value == eval(element.value, env, option, st)
             entry == [keyed |-> element.keyed, key |-> element.key, val |-> value.val]
         IN  IF ~IsOk(value) THEN value
             ELSE IF element.keyed
                  THEN ArrayLiteral_loop(elements_ast, index + 1, env, option, value.st,
                                         Append(elements, KeyElement(element.key)),
                                         Put(map_elements, element.key, value.val),
                                         Append(entries, entry))
             ELSE ArrayLiteral_loop(elements_ast, index + 1, env, option, value.st,
                                    Append(elements, ObjectElement(value.val)),
                                    map_elements, Append(entries, entry))

ArrayLiteral_eval(node, env, option, st) ==
    ArrayLiteral_loop(node.elements, 1, env, option, st, <<>>, <<>>, <<>>)

\* impl Evaluator for ElementAccessExpression, the match on (left, index).
\* `val as usize` sends a negative index beyond every length.
ElementRead(st, left, index) ==
    IF Variant(left) # "Array" THEN Err(st, "not an array")
    ELSE LET array == st.arrays[left.n]
         IN  CASE Variant(index) = "Number" ->
                    IF index.n < 0 \/ index.n >= Len(array.elements)
                    THEN Err(st, "index out of bounds")
                    ELSE LET element == array.elements[index.n + 1]
                         IN  IF ~element.key THEN Ok(st, element.obj)
                             ELSE IF Has(array.map, element.name)
                                  THEN Ok(st, array.map[element.name])
                             ELSE Err(st, "key not found")
               [] Variant(index) = "StringLiteral" ->
                    IF Has(array.map, index.s) THEN Ok(st, array.map[index.s])
                    ELSE Err(st, "key not found")
               [] OTHER -> Err(st, "not a number")

ElementAccessExpression_eval(node, env, option, st) ==
    LET left == eval(node.left, env, option, st)
    IN  IF ~IsOk(left) THEN left
        ELSE LET index == eval(node.index, env, option, left.st)
             IN  IF ~IsOk(index) THEN index
                 ELSE ElementRead(index.st, left.val, index.val)

\* the summary of one evaluation of a for expression (ghost): the array, its
\* number of slots, and for every iteration run the slot index, the object
\* bound to the loop variable and the value of the body
ForEvent(st, ref, err, val, its) ==
    [ev |-> "for", d |-> st.depth, n |-> ref, i |-> Len(st.arrays[ref].elements),
     s |-> err, val |-> val, its |-> its]

\* a loop that does not stop at a body value other than None: it visits every
\* slot and yields the value of the last body
ForExpression_loop_Exhaust(node, ref, index, env, option, st, its) ==
    IF index > Len(st.arrays[ref].elements)
    THEN LET last == IF its = <<>> THEN NoneObj ELSE its[Len(its)].val
         IN  Ok(Log(st, ForEvent(st, ref, "ok", last, its)), last)
    ELSE LET array == st.arrays[ref]
             element == array.elements[index]
         IN  IF element.key /\ ~Has(array.map, element.name) THEN Err(st, "key not found")
             ELSE LET array_value == IF element.key THEN array.map[element.name] ELSE element.obj
                      st1 == NewEnvironment(BorrowMap(st, ref, 1), env)
                      for_env == Len(st1.envs)
                      st2 == Log(define(st1, for_env, node.variable, array_value),
                                 Event("iter", st.depth, for_env, index, node.variable, array_value))
                      value == eval(node.body, for_env, option, [st2 EXCEPT !.loops = @ + 1])
                      st3 == BorrowMap([value.st EXCEPT !.loops = st.loops], ref, -1)
                      ran == Append(its, [i |-> index, var |-> array_value, val |-> value.val])
                  IN  IF value.err = "panic" THEN value
                      ELSE IF ~IsOk(value) THEN [value EXCEPT !.st = st3]
                      ELSE IF is_return(value.val)
                           THEN Ok(Log(st3, ForEvent(st3, ref, "ok", value.val, ran)), value.val)
                      ELSE ForExpression_loop(node, ref, index + 1, env, option, st3, ran)

\* impl Evaluator for ForExpression: the while loop over the slots.  The
\* elements borrow is held by the caller for the whole loop, the map borrow
\* for one iteration.
ForExpression_loop(node, ref, index, env, option, st, its) ==
    IF index > Len(st.arrays[ref].elements)
    THEN Ok(Log(st, ForEvent(st, ref, "ok", NoneObj, its)), NoneObj)
    ELSE LET array == st.arrays[ref]
             element == array.elements[index]
         IN  IF element.key /\ ~Has(array.map, element.name) THEN Err(st, "key not found")
             ELSE LET array_value == IF element.key THEN array.map[element.name] ELSE element.obj
                      st1 == NewEnvironment(BorrowMap(st, ref, 1), env)
                      for_env == Len(st1.envs)
                      st2 == Log(define(st1, for_env, node.variable, array_value),
                                 Event("iter", st.depth, for_env, index, node.variable, array_value))
                      value == eval(node.body, for_env, option, [st2 EXCEPT !.loops = @ + 1])
                      st3 == BorrowMap([value.st EXCEPT !.loops = st.loops], ref, -1)
                      ran == Append(its, [i |-> index, var |-> array_value, val |-> value.val])
                  IN  IF value.err = "panic" THEN value
                      ELSE IF ~IsOk(value) THEN [value EXCEPT !.st = st3]
                      ELSE IF IsNone(value.val)
                           THEN ForExpression_loop(node, ref, index + 1, env, option, st3, ran)
                      ELSE Ok(Log(st3, ForEvent(st3, ref, "ok", value.val, ran)), value.val)

ForExpression_eval(node, env, option, st) ==
    LET iter == eval(node.iterable, env, option, st)
    IN  IF ~IsOk(iter) THEN iter
        ELSE IF Variant(iter.val) # "Array" THEN Err(iter.st, "not an array")
        ELSE LET ref == iter.val.n
                 value == ForExpression_loop(node, ref, 1, env, option,
                                             BorrowElements(iter.st, ref, 1), <<>>)
             IN  IF value.err = "panic" THEN value
                 ELSE [value EXCEPT !.st = BorrowElements(@, ref, -1)]

\* impl Evaluator for SwitchExpression: the loop over the cases, then the
\* default.  count is the number of bodies this evaluation has run (ghost).
SwitchExpression_default(node, env, option, st, count) ==
    IF node.default = <<>>
    THEN Ok(Log(st, Event("switch", st.depth, count, 0, "", NoneObj)), NoneObj)
    ELSE LET body == eval(node.default[1], env, option, st)
         IN  IF ~IsOk(body) THEN body
             ELSE Ok(Log(Log(body.st, Event("default", st.depth, 0, 0, "", body.val)),
                         Event("switch", st.depth, count + 1, 0, "default", body.val)),
                     body.val)

SwitchExpression_cases(node, index, env, option, st, value, count) ==
    IF index > Len(node.cases) THEN SwitchExpression_default(node, env, option, st, count)
    ELSE LET condition == eval(node.cases[index].condition, env, option, st)
         IN  IF ~IsOk(condition) THEN condition
             ELSE IF ~is_equal_to(condition.val, value)
                  THEN SwitchExpression_cases(node, index + 1, env, option, condition.st,
                                              value, count)
             ELSE LET body == eval(node.cases[index].body, env, option, condition.st)
                      st1 == Log(body.st, Event("case", st.depth, 0, index, "", body.val))
                  IN  IF ~IsOk(body) THEN body
                      ELSE IF IsNone(body.val)
                           THEN SwitchExpression_cases(node, index + 1, env, option, st1,
                                                       value, count + 1)
                      ELSE Ok(Log(st1, Event("switch", st.depth, count + 1, 0,
                                             IF node.default = <<>> THEN "" ELSE "default",
                                             body.val)),
                              body.val)

SwitchExpression_eval(node, env, option, st) ==
    LET value == eval(node.expression, env, option, st)
    IN  IF ~IsOk(value) THEN value
        ELSE SwitchExpression_cases(node, 1, env, option, value.st, value.val, 0)

\* a declaration that tracks what its block reads whether or not the name
\* is defined already
WatchDeclaration_eval_Tracking(node, env, option, st) ==
    LET tracking == <<[declaration |-> node, env |-> env]>>
        value == eval(node.block, env, tracking, [st EXCEPT !.watching = @ + 1])
        st1 == [value.st EXCEPT !.watching = st.watching]
    IN  IF value.err = "panic" THEN value
        ELSE IF ~IsOk(value) THEN [value EXCEPT !.st = st1]
        ELSE Ok(Log(define(st1, env, node.name, value.val),
                    Event("watch", st.depth, env, Len(tracking), node.name, value.val)),
                NoneObj)

\* impl Evaluator for WatchDeclaration: dependency tracking is on only when
\* the name does not resolve yet
WatchDeclaration_eval(node, env, option, st) ==
    LET tracking == IF get(st, env, node.name).found THEN <<>>
                    ELSE <<[declaration |-> node, env |-> env]>>
        value == eval(node.block, env, tracking, [st EXCEPT !.watching = @ + 1])
        st1 == [value.st EXCEPT !.watching = st.watching]
    IN  IF value.err = "panic" THEN value
        ELSE IF ~IsOk(value) THEN [value EXCEPT !.st = st1]
        ELSE Ok(Log(define(st1, env, node.name, value.val),
                    Event("watch", st.depth, env, Len(tracking), node.name, value.val)),
                NoneObj)

\* impl EvalAssign for Identifier.  The watch looked up is the one of the
\* environment the assignment is evaluated in; the Result of the
\* re-evaluation is dropped.
Identifier_assign(node, env, value, option, st) ==
    LET name == node.value
        st1 == Log(assign(st, env, name, value),
                   Event("assign", st.depth, Resolve(st.envs, env, name), env, name, value))
    IN  IF ~Has(st1.envs[env].watch, name) THEN Ok(st1, value)
        ELSE IF st1.depth >= MaxDepth THEN Panic(st1, "stack overflow")
        ELSE LET watch == st1.envs[env].watch[name]
                 st2 == Log(Enter(st1), Event("fire", st1.depth + 1, watch.env, 0,
                                              watch.expressions.name, NoneObj))
                 fired == WatchDeclaration_eval(watch.expressions, watch.env, option, st2)
             IN  IF fired.err = "panic" THEN fired
                 ELSE Ok(Leave(Log(fired.st, Event("fired", st2.depth, watch.env, 0,
                                                   fired.err, NoneObj)),
                               st1),
                         value)

\* an element assignment that writes into a private copy of the array and
\* leaves the shared one as it was
ElementStore_Private(st, left, index, value) ==
    IF ~IsOk(left) THEN Panic(st, "called unwrap on an Err value")
    ELSE IF Variant(left.val) # "Array" THEN Err(st, "is not an array")
    ELSE LET ref == left.val.n
             array == st.arrays[ref]
         IN  CASE IsOk(index) /\ Variant(index.val) = "Number" ->
                    IF array.eb > 0 THEN Panic(st, "already borrowed: BorrowMutError")
                    ELSE IF index.val.n >= 0 /\ index.val.n < Len(array.elements)
                    THEN Ok(Log([st EXCEPT !.arrays =
                                    Append(@, [array EXCEPT !.elements[index.val.n + 1] =
                                                                ObjectElement(value)])],
                                Event("store", st.depth, ref, index.val.n, "", value)),
                            value)
                    ELSE Err(st, "index out of range")
               [] IsOk(index) /\ Variant(index.val) = "StringLiteral" ->
                    IF array.mb > 0 THEN Panic(st, "already borrowed: BorrowMutError")
                    ELSE Ok(Log([st EXCEPT !.arrays =
                                    Append(@, [array EXCEPT !.map = Put(@, index.val.s, value)])],
                                Event("store", st.depth, ref, -1, index.val.s, value)),
                            value)
               [] OTHER ->
                    IF ~IsOk(index) THEN Panic(st, "called unwrap on an Err value")
                    ELSE Err(st, "is not a valid index")

\* an element assignment whose negative index counts from the end of the
\* slot list
ElementStore_Wrapping(st, left, index, value) ==
    IF ~IsOk(left) THEN Panic(st, "called unwrap on an Err value")
    ELSE IF Variant(left.val) # "Array" THEN Err(st, "is not an array")
    ELSE LET ref == left.val.n
             array == st.arrays[ref]
             at == IF IsOk(index) /\ Variant(index.val) = "Number" /\ index.val.n < 0
                   THEN index.val.n + Len(array.elements)
                   ELSE index.val.n
         IN  CASE IsOk(index) /\ Variant(index.val) = "Number" ->
                    IF array.eb > 0 THEN Panic(st, "already borrowed: BorrowMutError")
                    ELSE IF at >= 0 /\ at < Len(array.elements)
                    THEN Ok(Log([st EXCEPT !.arrays[ref].elements[at + 1] =
                                                ObjectElement(value)],
                                Event("store", st.depth, ref, at, "", value)),
                            value)
                    ELSE Err(st, "index out of range")
               [] IsOk(index) /\ Variant(index.val) = "StringLiteral" ->
                    IF array.mb > 0 THEN Panic(st, "already borrowed: BorrowMutError")
                    ELSE Ok(Log([st EXCEPT !.arrays[ref].map = Put(@, index.val.s, value)],
                                Event("store", st.depth, ref, -1, index.val.s, value)),
                            value)
               [] OTHER ->
                    IF ~IsOk(index) THEN Panic(st, "called unwrap on an Err value")
                    ELSE Err(st, "is not a valid index")

\* impl EvalAssign for ElementAccessExpression, once left and index are
\* evaluated: borrow_mut panics while a for loop holds a borrow
ElementStore(st, left, index, value) ==
    IF ~IsOk(left) THEN Panic(st, "called unwrap on an Err value")
    ELSE IF Variant(left.val) # "Array" THEN Err(st, "is not an array")
    ELSE LET ref == left.val.n
             array == st.arrays[ref]
         IN  CASE IsOk(index) /\ Variant(index.val) = "Number" ->
                    IF array.eb > 0 THEN Panic(st, "already borrowed: BorrowMutError")
                    ELSE IF index.val.n >= 0 /\ index.val.n < Len(array.elements)
                    THEN Ok(Log([st EXCEPT !.arrays[ref].elements[index.val.n + 1] =
                                                ObjectElement(value)],
                                Event("store", st.depth, ref, index.val.n, "", value)),
                            value)
                    ELSE Err(st, "index out of range")
               [] IsOk(index) /\ Variant(index.val) = "StringLiteral" ->
                    IF array.mb > 0 THEN Panic(st, "already borrowed: BorrowMutError")
                    ELSE Ok(Log([st EXCEPT !.arrays[ref].map = Put(@, index.val.s, value)],
                                Event("store", st.depth, ref, -1, index.val.s, value)),
                            value)
               [] OTHER ->
                    IF ~IsOk(index) THEN Panic(st, "called unwrap on an Err value")
                    ELSE Err(st, "is not a valid index")

\* left and index are both evaluated before either Result is inspected
ElementAccessExpression_assign(node, env, value, option, st) ==
    LET left == eval(node.left, env, option, st)
    IN  IF left.err = "panic" THEN left
        ELSE LET index == eval(node.index, env, option, left.st)
             IN  IF index.err = "panic" THEN index
                 ELSE ElementStore(index.st, left, index, value)

Assign_eval(node, env, option, st) ==
    CASE node.left.t = "Identifier" ->
           LET value == eval(node.right, env, option, st)
           IN  IF ~IsOk(value) THEN value
               ELSE Identifier_assign(node.left, env, value.val, option, value.st)
      [] node.left.t = "ElementAccessExpression" ->
           LET value == eval(node.right, env, option, st)
           IN  IF ~IsOk(value) THEN value
               ELSE ElementAccessExpression_assign(node.left, env, value.val, option, value.st)
      [] OTHER -> Err(st, "invalid assignment")

\* a declaration that overwrites the binding an enclosing environment has for
\* the name, when there is one
VariableDeclaration_eval_Outer(node, env, option, st) ==
    LET value == eval(node.value, env, option, st)
    IN  IF ~IsOk(value) THEN value
        ELSE IF Variant(value.val) = "Return" THEN value
        ELSE Ok(Log(IF get(value.st, env, node.name).found
                    THEN assign(value.st, env, node.name, value.val)
                    ELSE define(value.st, env, node.name, value.val),
                    Event("let", st.depth, env, 0, node.name, value.val)),
                NullObj)

\* a declaration that, like an identifier assignment, fires the watch
\* registered under the name
VariableDeclaration_eval_Firing(node, env, option, st) ==
    LET value == eval(node.value, env, option, st)
    IN  IF ~IsOk(value) THEN value
        ELSE IF Variant(value.val) = "Return" THEN value
        ELSE LET fired == Identifier_assign(Identifier(node.name), env, value.val, option,
                              Log(define(value.st, env, node.name, value.val),
                                  Event("let", st.depth, env, 0, node.name, value.val)))
             IN  IF IsOk(fired) THEN Ok(fired.st, NullObj) ELSE fired

\* impl Evaluator for VariableDeclaration
VariableDeclaration_eval(node, env, option, st) ==
    LET value == eval(node.value, env, option, st)
    IN  IF ~IsOk(value) THEN value
        ELSE IF Variant(value.val) = "Return" THEN value
        ELSE Ok(Log(define(value.st, env, node.name, value.val),
                    Event("let", st.depth, env, 0, node.name, value.val)),
                NullObj)

\* a statement that hands on the value of its expression
StatementValue_Keep(r) == r

\* Statement::Expression and Statement::VariableDeclaration: markers pass,
\* every other object becomes None
StatementValue(r) ==
    IF ~IsOk(r) THEN r
    ELSE IF is_return_like(r.val) THEN r
    ELSE Ok(r.st, NoneObj)

\* impl Evaluator for Statement
Statement_eval(node, env, option, st0) ==
    LET st == Log(st0, Event("stmt", st0.depth, env, 0, node.t, NoneObj))
    IN  CASE node.t = "VariableDeclaration" ->
               StatementValue(VariableDeclaration_eval(node, env, option, st))
          [] node.t = "Expression" ->
               StatementValue(eval(node.value, env, option, st))
          [] node.t = "ReturnStatement" ->
               LET value == eval(node.value, env, option, st)
               IN  IF ~IsOk(value) THEN value
                   ELSE Ok(Log(value.st, Event("return", st.depth, st.loops, st.watching,
                                               "", value.val)),
                           Return(value.val))
          [] node.t = "BlockReturnStatement" ->
               LET value == eval(node.value, env, option, st)
               IN  IF ~IsOk(value) THEN value
                   ELSE Ok(value.st, BlockReturn(value.val))
          [] node.t = "WatchDeclaration" ->
               WatchDeclaration_eval(node, env, option, st)

\* impl Evaluator for Expression
Expression_eval(node, env, option, st) ==
    CASE node.t = "NumberLiteral" -> Ok(st, Number(node.value))
      [] node.t = "BooleanLiteral" -> Ok(st, Boolean(node.value))
      [] node.t = "StringLiteral" -> Ok(st, StringLiteral(node.value))
      [] node.t = "InfixExpression" -> InfixExpression_eval(node, env, option, st)
      [] node.t = "Identifier" -> Identifier_eval(node, env, option, st)
      [] node.t = "FunctionLiteral" -> FunctionLiteral_eval(node, env, option, st)
      [] node.t = "CallExpression" -> CallExpression_eval(node, env, option, st)
      [] node.t = "IfExpression" -> IfExpression_eval(node, env, option, st)
      [] node.t = "ArrayLiteral" -> ArrayLiteral_eval(node, env, option, st)
      [] node.t = "ElementAccessExpression" -> ElementAccessExpression_eval(node, env, option, st)
      [] node.t = "ForExpression" -> ForExpression_eval(node, env, option, st)
      [] node.t = "SwitchExpression" -> SwitchExpression_eval(node, env, option, st)
      [] node.t = "Assign" -> Assign_eval(node, env, option, st)
      [] node.t = "BlockExpression" -> BlockExpression_eval(node, env, option, st)

\* the variants of Statement
StatementVariants ==
    {"VariableDeclaration", "Expression", "ReturnStatement", "BlockReturnStatement",
     "WatchDeclaration"}

eval(node, env, option, st) ==
    IF node.t \in StatementVariants THEN Statement_eval(node, env, option, st)
    ELSE Expression_eval(node, env, option, st)

\* ---------------------------------------------------------------- programs

\* shorthands for source text
Num(n) == NumberLiteral(n)
Id(name) == Identifier(name)
Let(name, e) == VariableDeclaration(name, e)
Do(e) == ExpressionStatement(e)
Ret(e) == ReturnStatement(e)
Yield(e) == BlockReturnStatement(e)
Set(name, e) == Assign(Id(name), e)
Fn(parameters, statements) == FunctionLiteral(parameters, statements)
Call(f, arguments) == CallExpression(f, arguments)
Block(statements) == BlockExpression(statements)

Index(a, i) == ElementAccessExpression(a, i)
Plus(l, r) == InfixExpression(l, "Plus", r)
Eq(l, r) == InfixExpression(l, "Equal", r)
If(c, statements) == IfExpression(c, statements, <<>>)
For(v, e, statements) == ForExpression(v, e, statements)
Array(es) == ArrayLiteral(es)

\* programs about watches
WatchStatements == <<
    \* let x = 1;
    Let("x", Num(1)),
    \* watch w = { x + 1 };
    WatchDeclaration("w", <<Yield(Plus(Id("x"), Num(1)))>>),
    \* x = 2;
    Do(Set("x", Num(2))),
    \* fn() { x = 3; }();
    Do(Call(Fn(<<>>, <<Do(Set("x", Num(3)))>>), <<>>)),
    \* for (i in [5]) { x = i; };
    Do(For("i", Array(<<Value(Num(5))>>), <<Do(Set("x", Id("i")))>>)),
    \* return w;
    Ret(Id("w")),
    \* w
    Yield(Id("w"))
>>

\* programs about switch
SwitchStatements == <<
    \* let x = 1;
    Let("x", Num(1)),
    \* let x = 2;
    Let("x", Num(2)),
    \* let a = switch (x) { case 1: { 10 } case 2: { 20 } };
    Let("a", SwitchExpression(Id("x"),
                 <<Case(Num(1), <<Yield(Num(10))>>), Case(Num(2), <<Yield(Num(20))>>)>>, <<>>)),
    \* let a = switch (x) { case 1: { 10 } default: { 30 } };
    Let("a", SwitchExpression(Id("x"),
                 <<Case(Num(1), <<Yield(Num(10))>>)>>, <<Block(<<Yield(Num(30))>>)>>)),
    \* switch (x) { case 1: { x = 2; } case 2: { x = 5; } default: { x = 9; } };
    Do(SwitchExpression(Id("x"),
           <<Case(Num(1), <<Do(Set("x", Num(2)))>>), Case(Num(2), <<Do(Set("x", Num(5)))>>)>>,
           <<Block(<<Do(Set("x", Num(9)))>>)>>)),
    \* let a = switch (x) { case 1: { 10 } case 1: { 11 } };
    Let("a", SwitchExpression(Id("x"),
                 <<Case(Num(1), <<Yield(Num(10))>>), Case(Num(1), <<Yield(Num(11))>>)>>, <<>>)),
    \* return a;
    Ret(Id("a"))
>>

\* programs that use a block containing `return` as an operand
MarkerStatements == <<
    \* let x = 1;
    Let("x", Num(1)),
    \* x = { return 5; };
    Do(Set("x", Block(<<Ret(Num(5))>>))),
    \* let a = [{ return 1; }, k: { return 2; }];
    Let("a", Array(<<Value(Block(<<Ret(Num(1))>>)), MapKeyValue("k", Block(<<Ret(Num(2))>>))>>)),
    \* fn(p) { 0 }({ return 3; });
    Do(Call(Fn(<<"p">>, <<Yield(Num(0))>>), <<Block(<<Ret(Num(3))>>)>>)),
    \* let r = fn() { return { return 7; }; }();
    Let("r", Call(Fn(<<>>, <<Ret(Block(<<Ret(Num(7))>>))>>), <<>>)),
    \* let y = { return 6; };
    Let("y", Block(<<Ret(Num(6))>>)),
    \* return x;
    Ret(Id("x"))
>>

\* programs about for loops and `return` inside them
LoopStatements == <<
    \* let arr = [1, 2, k: 3];
    Let("arr", Array(<<Value(Num(1)), Value(Num(2)), MapKeyValue("k", Num(3))>>)),
    \* let r = fn() { let v = for (i in arr) { if (i == 2) { return i; } }; return 0; }();
    Let("r", Call(Fn(<<>>,
        <<Let("v", For("i", Id("arr"), <<Yield(If(Eq(Id("i"), Num(2)), <<Ret(Id("i"))>>))>>)),
          Ret(Num(0))>>), <<>>)),
    \* let r = fn() { for (i in arr) { switch (i) { case 2: { { return 10 + i; } } } }; return 0; }();
    Let("r", Call(Fn(<<>>,
        <<Do(For("i", Id("arr"),
                 <<Yield(SwitchExpression(Id("i"),
                       <<Case(Num(2), <<Yield(Block(<<Ret(Plus(Num(10), Id("i")))>>))>>)>>,
                       <<>>))>>)),
          Ret(Num(0))>>), <<>>)),
    \* let last = for (v in arr) { if (v == 2) { v } };
    Let("last", For("v", Id("arr"), <<Yield(If(Eq(Id("v"), Num(2)), <<Yield(Id("v"))>>))>>)),
    \* let r = fn() { let a = [for (i in arr) { return i; }]; return 0; }();
    Let("r", Call(Fn(<<>>,
        <<Let("a", Array(<<Value(For("i", Id("arr"), <<Ret(Id("i"))>>))>>)),
          Ret(Num(0))>>), <<>>)),
    \* let n = for (v in arr) { v; };
    Let("n", For("v", Id("arr"), <<Do(Id("v"))>>)),
    \* let r = fn() { for (i in arr) { for (j in arr) { if (i + j == 3) { return j; } } }; }();
    Let("r", Call(Fn(<<>>,
        <<Do(For("i", Id("arr"),
                 <<Yield(For("j", Id("arr"),
                       <<Yield(If(Eq(Plus(Id("i"), Id("j")), Num(3)), <<Ret(Id("j"))>>))>>))>>))>>),
        <<>>)),
    \* let r = fn() { let v = for (i in arr) { i }; return v + 10; }();
    Let("r", Call(Fn(<<>>,
        <<Let("v", For("i", Id("arr"), <<Yield(Id("i"))>>)),
          Ret(Plus(Id("v"), Num(10)))>>), <<>>)),
    \* return r;
    Ret(Id("r"))
>>

\* programs about arrays reached through several names
ArrayStatements == <<
    \* let a = [1, k: 2];
    Let("a", Array(<<Value(Num(1)), MapKeyValue("k", Num(2))>>)),
    \* let b = a;
    Let("b", Id("a")),
    \* a[0] = 7;
    Do(Assign(Index(Id("a"), Num(0)), Num(7))),
    \* b["k"] = 8;
    Do(Assign(Index(Id("b"), StringLit("k")), Num(8))),
    \* fn(p) { p[1] = 6; }(a);
    Do(Call(Fn(<<"p">>, <<Do(Assign(Index(Id("p"), Num(1)), Num(6)))>>), <<Id("a")>>)),
    \* fn() { b["z"] = 4; }();
    Do(Call(Fn(<<>>, <<Do(Assign(Index(Id("b"), StringLit("z")), Num(4)))>>), <<>>)),
    \* a[5] = 1;
    Do(Assign(Index(Id("a"), Num(5)), Num(1))),
    \* for (v in a) { b[0] = v; };
    Do(For("v", Id("a"), <<Do(Assign(Index(Id("b"), Num(0)), Id("v")))>>)),
    \* return b[0];
    Ret(Index(Id("b"), Num(0)))
>>

\* programs about closures over one environment
ClosureStatements == <<
    \* let x = 1;
    Let("x", Num(1)),
    \* { let inc = fn() { x = x + 1; }; let get = fn() { x }; };
    Do(Block(<<Let("inc", Fn(<<>>, <<Do(Set("x", Plus(Id("x"), Num(1))))>>)),
               Let("get", Fn(<<>>, <<Yield(Id("x"))>>))>>)),
    \* inc();
    Do(Call(Id("inc"), <<>>)),
    \* let r = get();
    Let("r", Call(Id("get"), <<>>)),
    \* let p = fn() { let c = 0; [fn() { c = c + 5; }, fn() { c }] }();
    Let("p", Call(Fn(<<>>,
        <<Let("c", Num(0)),
          Yield(Array(<<Value(Fn(<<>>, <<Do(Set("c", Plus(Id("c"), Num(5))))>>)),
                        Value(Fn(<<>>, <<Yield(Id("c"))>>))>>))>>), <<>>)),
    \* p[0]();
    Do(Call(Index(Id("p"), Num(0)), <<>>)),
    \* let r = p[1]();
    Let("r", Call(Index(Id("p"), Num(1)), <<>>)),
    \* let r = { inc(); get() };
    Let("r", Block(<<Do(Call(Id("inc"), <<>>)), Yield(Call(Id("get"), <<>>))>>)),
    \* return r;
    Ret(Id("r"))
>>

\* programs about array literals that mix positional and keyed entries
LiteralStatements == <<
    \* let a = [1, 2, k: 3, 4];
    Let("a", Array(<<Value(Num(1)), Value(Num(2)), MapKeyValue("k", Num(3)), Value(Num(4))>>)),
    \* let n = for (v in [1, 2, k: 3, 4]) { v; };
    Let("n", For("v", Array(<<Value(Num(1)), Value(Num(2)), MapKeyValue("k", Num(3)),
                             Value(Num(4))>>),
                 <<Do(Id("v"))>>)),
    \* let d = [k: 1, 5, k: 2];
    Let("d", Array(<<MapKeyValue("k", Num(1)), Value(Num(5)), MapKeyValue("k", Num(2))>>)),
    \* return a[2];
    Ret(Index(Id("a"), Num(2))),
    \* return a["k"];
    Ret(Index(Id("a"), StringLit("k")))
>>

\* programs about the value of blocks
BlockStatements == <<
    \* let f = fn() { { { 7 } } };
    Let("f", Fn(<<>>, <<Yield(Block(<<Yield(Block(<<Yield(Num(7))>>))>>))>>)),
    \* let r = f();
    Let("r", Call(Id("f"), <<>>)),
    \* let r = fn() { { { 5 } } 8 }();
    Let("r", Call(Fn(<<>>, <<Yield(Block(<<Yield(Block(<<Yield(Num(5))>>))>>)), Yield(Num(8))>>),
                  <<>>)),
    \* let r = { let x = 1; x + 1 };
    Let("r", Block(<<Let("x", Num(1)), Yield(Plus(Id("x"), Num(1)))>>)),
    \* let r = { 5; };
    Let("r", Block(<<Do(Num(5))>>)),
    \* let r = fn() { if (true) { return 3; }; 4 }();
    Let("r", Call(Fn(<<>>, <<Do(If(BooleanLiteral(TRUE), <<Ret(Num(3))>>)), Yield(Num(4))>>),
                  <<>>)),
    \* return r;
    Ret(Id("r"))
>>

\* programs about a watch whose block assigns the variable it reads
SelfWatchStatements == <<
    \* let x = 1;
    Let("x", Num(1)),
    \* watch w = { x = x + 1; x };
    WatchDeclaration("w", <<Do(Set("x", Plus(Id("x"), Num(1)))), Yield(Id("x"))>>),
    \* watch v = { x = 1; x };
    WatchDeclaration("v", <<Do(Set("x", Num(1))), Yield(Id("x"))>>),
    \* x = 5;
    Do(Set("x", Num(5)))
>>

\* programs in which an evaluation gives an Err
ErrorStatements == <<
    \* let x = 1;
    Let("x", Num(1)),
    \* watch w = { x + 1 };
    WatchDeclaration("w", <<Yield(Plus(Id("x"), Num(1)))>>),
    \* x = "s";
    Do(Set("x", StringLit("s"))),
    \* let r = { y; x };
    Let("r", Block(<<Do(Id("y")), Yield(Id("x"))>>))
>>

\* programs about scopes: a name bound in several environments
ScopeStatements == <<
    \* let x = 1;
    Let("x", Num(1)),
    \* let f = fn(y) { x + y };
    Let("f", Fn(<<"y">>, <<Yield(Plus(Id("x"), Id("y")))>>)),
    \* let r = fn(x) { f(x) }(9);
    Let("r", Call(Fn(<<"x">>, <<Yield(Call(Id("f"), <<Id("x")>>))>>), <<Num(9)>>)),
    \* let r = fn(x) { x = 7; x }(0);
    Let("r", Call(Fn(<<"x">>, <<Do(Set("x", Num(7))), Yield(Id("x"))>>), <<Num(0)>>)),
    \* let r = u = 5;
    Let("r", Set("u", Num(5))),
    \* let r = fn() { let x = 2; fn() { x }() + f(0) }();
    Let("r", Call(Fn(<<>>, <<Let("x", Num(2)),
                             Yield(Plus(Call(Fn(<<>>, <<Yield(Id("x"))>>), <<>>),
                                        Call(Id("f"), <<Num(0)>>)))>>), <<>>))
>>

\* programs about the registrations of watches
TrackStatements == <<
    \* let x = 1;
    Let("x", Num(1)),
    \* { watch a = { if (x == 1) { u } else { z } }; 0 };
    Do(Block(<<WatchDeclaration("a",
                   <<Yield(IfExpression(Eq(Id("x"), Num(1)), <<Yield(Id("u"))>>,
                                        <<Block(<<Yield(Id("z"))>>)>>))>>),
               Yield(Num(0))>>)),
    \* watch x = { x = 2; x };
    WatchDeclaration("x", <<Do(Set("x", Num(2))), Yield(Id("x"))>>),
    \* watch b = { if (x == 1) { x } else { print } };
    WatchDeclaration("b", <<Yield(IfExpression(Eq(Id("x"), Num(1)), <<Yield(Id("x"))>>,
                                               <<Block(<<Yield(Id("print"))>>)>>))>>),
    \* watch c = { x + 2 };
    WatchDeclaration("c", <<Yield(Plus(Id("x"), Num(2)))>>),
    \* x = 5;
    Do(Set("x", Num(5)))
>>

\* programs about which registration an assignment finds
RegisterStatements == <<
    \* { let x = 1; watch b = { x }; 0 };
    Do(Block(<<Let("x", Num(1)), WatchDeclaration("b", <<Yield(Id("x"))>>), Yield(Num(0))>>)),
    \* watch c = { x + 2 };
    WatchDeclaration("c", <<Yield(Plus(Id("x"), Num(2)))>>),
    \* x = 5;
    Do(Set("x", Num(5))),
    \* watch d = { fn() { x }() + 3 };
    WatchDeclaration("d", <<Yield(Plus(Call(Fn(<<>>, <<Yield(Id("x"))>>), <<>>), Num(3)))>>)
>>

\* programs about the environment the body of a block, if, switch and for
\* runs in
BraceStatements == <<
    \* let y = 0;
    Let("y", Num(0)),
    \* { let x = 1; if (x == 1) { let y = 2; }; };
    Do(Block(<<Let("x", Num(1)),
               Do(If(Eq(Id("x"), Num(1)), <<Let("y", Num(2))>>))>>)),
    \* switch (y) { case 2: { let z = 3; } default: { let z = 4; } };
    Do(SwitchExpression(Id("y"), <<Case(Num(2), <<Let("z", Num(3))>>)>>,
                        <<Block(<<Let("z", Num(4))>>)>>)),
    \* for (v in [1, 2]) { if (v == 1) { let y = v + 5; }; };
    Do(For("v", Array(<<Value(Num(1)), Value(Num(2))>>),
           <<Do(If(Eq(Id("v"), Num(1)), <<Let("y", Plus(Id("v"), Num(5)))>>))>>))
>>

\* programs about element assignment next to a watch
ElementStatements == <<
    \* let a = [1, k: 2];
    Let("a", Array(<<Value(Num(1)), MapKeyValue("k", Num(2))>>)),
    \* watch w = { a[0] };
    WatchDeclaration("w", <<Yield(Index(Id("a"), Num(0)))>>),
    \* a[0] = 7;
    Do(Assign(Index(Id("a"), Num(0)), Num(7))),
    \* let r = a["k"] = 8;
    Let("r", Assign(Index(Id("a"), StringLit("k")), Num(8))),
    \* a[0 - 1] = 9;
    Do(Assign(Index(Id("a"), InfixExpression(Num(0), "Minus", Num(1))), Num(9))),
    \* a[1] = 6;
    Do(Assign(Index(Id("a"), Num(1)), Num(6))),
    \* for (v in a) { a["z"] = v; };
    Do(For("v", Id("a"), <<Do(Assign(Index(Id("a"), StringLit("z")), Id("v")))>>))
>>

Suites == <<WatchStatements, SwitchStatements, MarkerStatements, LoopStatements,
            ArrayStatements, ClosureStatements, LiteralStatements, BlockStatements,
            SelfWatchStatements, ErrorStatements, ScopeStatements, TrackStatements,
            ElementStatements, RegisterStatements, BraceStatements>>

\* ---------------------------------------------------------------- machine

VARIABLES
    suite,      \* which statement list the program is written from
    program,    \* Program.statements, as indexes into Suites[suite]
    iter,       \* number of statements the iterator of Program::eval has yielded
    envs,       \* every Environment allocated so far; envs[1] is the root
    arrays,     \* every Array allocated so far
    value,      \* the local `value` of Program::eval
    status,     \* "running", "returned" (Ok(value)) or "panicked"
    trace,      \* the events of the statement evaluated last
    peekable,   \* the Peekable the parser reads the source text through
    calls,      \* the calls made on the Peekable and what they returned
    parsed      \* what the parser returned: <<>> while it has not

vars == <<suite, program, iter, envs, arrays, value, status, trace, peekable, calls, parsed>>

\* the state of the front end (lexer and parser) and of the evaluator
front == <<peekable, calls, parsed>>
back == <<suite, program, iter, envs, arrays, value, status, trace>>

Root == 1

\* builtin::get_builtin_environment
get_builtin_environment ==
    [EmptyEnvironment(0) EXCEPT !.values = Put(@, "print", BuiltInFunction("print"))]

Init ==
    /\ suite \in 1..Len(Suites)
    /\ program \in [1..MaxStmts -> 1..Len(Suites[suite])]
    /\ iter = 0
    /\ envs = <<get_builtin_environment>>
    /\ arrays = <<>>
    /\ value = NoneObj
    /\ status = "running"
    /\ trace = <<>>
    /\ peekable = Peekable_new(<<>>)
    /\ calls = <<>>
    /\ parsed = <<>>

StatementAt(i) == Suites[suite][program[i]]

\* the evaluator's view of the machine state at the start of a statement
Store ==
    [envs |-> envs, arrays |-> arrays, trace |-> <<>>, depth |-> 0, loops |-> 0, watching |-> 0]

\* a loop that goes on to the next statement whatever the value is
ProgramStep_Unguarded ==
    /\ status = "running"
    /\ iter < Len(program)
    /\ LET r == eval(StatementAt(iter + 1), Root, <<>>, Store)
       IN  /\ envs' = r.st.envs
           /\ arrays' = r.st.arrays
           /\ trace' = r.st.trace
           /\ value' = IF IsOk(r) THEN r.val ELSE value
           /\ status' = IF IsOk(r) THEN "running" ELSE "panicked"
    /\ iter' = iter + 1
    /\ UNCHANGED <<suite, program>>
    /\ UNCHANGED front

\* impl Evaluator for Program: one turn of the while loop.  EvalOption::new()
\* is passed in; an Err is unwrapped.
ProgramStep ==
    /\ status = "running"
    /\ iter < Len(program)
    /\ IsNone(value)
    /\ LET r == eval(StatementAt(iter + 1), Root, <<>>, Store)
       IN  /\ envs' = r.st.envs
           /\ arrays' = r.st.arrays
           /\ trace' = r.st.trace
           /\ value' = IF IsOk(r) THEN r.val ELSE value
           /\ status' = IF IsOk(r) THEN "running" ELSE "panicked"
    /\ iter' = iter + 1
    /\ UNCHANGED <<suite, program>>
    /\ UNCHANGED front

\* the statement the iterator yields next is of the given variant
NextIs(variant) == iter < Len(program) /\ StatementAt(iter + 1).t = variant

\* one turn of the loop, by the variant of the statement it evaluates
EvalVariableDeclaration == NextIs("VariableDeclaration") /\ ProgramStep
EvalExpression == NextIs("Expression") /\ ProgramStep
EvalReturnStatement == NextIs("ReturnStatement") /\ ProgramStep
EvalBlockReturnStatement == NextIs("BlockReturnStatement") /\ ProgramStep
EvalWatchDeclaration == NextIs("WatchDeclaration") /\ ProgramStep

\* impl Evaluator for Program: the loop ends, Ok(value)
ProgramReturn ==
    /\ status = "running"
    /\ iter >= Len(program) \/ ~IsNone(value)
    /\ status' = "returned"
    /\ UNCHANGED <<suite, program, iter, envs, arrays, value, trace>>
    /\ UNCHANGED front

Next ==
    \/ EvalVariableDeclaration
    \/ EvalExpression
    \/ EvalReturnStatement
    \/ EvalBlockReturnStatement
    \/ EvalWatchDeclaration
    \/ ProgramReturn

Spec == Init /\ [][Next]_vars

\* ---------------------------------------------------------------- lexer machine

\* bounds of the source texts and of the calls made on one Peekable
MaxLexemes == 3
MaxCalls == 4

\* the kinds of chunk a source text is written from
LexemeKinds ==
    {Lexeme("Identifier", "x"), Lexeme("Number", "1"), Lexeme("Newline", ""),
     Lexeme("Comment", "//"), Lexeme("Error", "@")}

Sources == UNION {[1..n -> LexemeKinds] : n \in 0..MaxLexemes}

\* the evaluator does not run while the front end is examined
BackIdle ==
    /\ suite = 0
    /\ program = <<>>
    /\ iter = 0
    /\ envs = <<>>
    /\ arrays = <<>>
    /\ value = NoneObj
    /\ status = "idle"
    /\ trace = <<>>

\* Peekable::new(source) on any source text
LexInit ==
    /\ BackIdle
    /\ \E source \in Sources : peekable = Peekable_new(source)
    /\ calls = <<>>
    /\ parsed = <<>>

\* a caller calls peek()
Peek ==
    /\ Len(calls) < MaxCalls
    /\ LET r == Peekable_peek(peekable)
       IN  /\ peekable' = r.p
           /\ calls' = Append(calls, [op |-> "peek", token |-> r.token])
    /\ UNCHANGED parsed
    /\ UNCHANGED back

\* a caller calls next()
NextToken ==
    /\ Len(calls) < MaxCalls
    /\ LET r == Peekable_next(peekable)
       IN  /\ peekable' = r.p
           /\ calls' = Append(calls, [op |-> "next", token |-> r.token])
    /\ UNCHANGED parsed
    /\ UNCHANGED back

LexNext == Peek \/ NextToken

LexSpec == LexInit /\ [][LexNext]_vars

\* ---------------------------------------------------------------- parser machine

\* number of operators of an expression
MaxOperators == 2

\* Token::is_infix_operator
is_infix_operator(token) ==
    token \in {"Plus", "Minus", "Asterisk", "Slash", "Or", "And", "NotEqual", "Equal",
               "LessThan", "LessThanOrEqual", "GreaterThan", "GreaterThanOrEqual", "Percent"}

\* the tokens parse_expression takes in infix position with an operand on
\* both sides
InfixTokens == Operators \cup {"Assign"}

OperandNames == <<"a", "b", "c", "d", "e">>

\* the text `a op1 b op2 c ...` of the operators given
Chain(ops) ==
    [j \in 1..(2 * Len(ops) + 1) |->
        IF j % 2 = 1 THEN Lexeme("Identifier", OperandNames[(j + 1) \div 2])
        ELSE Lexeme(ops[j \div 2], "")]

Chains == {Chain(ops) : ops \in UNION {[1..n -> InfixTokens] : n \in 0..MaxOperators}}

\* Peekable::new(source) on the text of an expression
ParseInit ==
    /\ BackIdle
    /\ \E source \in Chains : peekable = Peekable_new(source)
    /\ calls = <<>>
    /\ parsed = <<>>

\* the function `by` has returned r and left the lexer as r.p
Parsed(by, r) ==
    /\ peekable' = r.p
    /\ parsed' = <<[by |-> by, err |-> r.err, node |-> r.node, msg |-> r.msg]>>

\* parse_expression(&mut lexer, Precedence::Lowest) on the text
ParseExpression ==
    /\ parsed = <<>>
    /\ Parsed("parse_expression", parse_expression(peekable, Precedence.Lowest))
    /\ UNCHANGED calls
    /\ UNCHANGED back

\* parse(&mut lexer) on the text
ParseProgram ==
    /\ parsed = <<>>
    /\ Parsed("parse", parse(peekable))
    /\ UNCHANGED calls
    /\ UNCHANGED back

ParseNext == ParseExpression \/ ParseProgram

ParseSpec == ParseInit /\ [][ParseNext]_vars

\* ---------------------------------------------------------------- properties

\* the events of one kind in the trace of the statement evaluated last
Events(kind) == {k \in 1..Len(trace) : trace[k].ev = kind}

\* the "call" or "fire" event that opened the frame event k lies in, 0 when k
\* lies in the top-level statement itself
FrameOf(k) ==
    LET opens == {c \in 1..(k - 1) : trace[c].ev \in {"call", "fire"} /\ trace[c].d = trace[k].d}
    IN  IF trace[k].d = 0 \/ opens = {} THEN 0
        ELSE CHOOSE c \in opens : \A c2 \in opens : c2 <= c

\* event k lies in the body of a closure call
InCall(k) == FrameOf(k) # 0 /\ trace[FrameOf(k)].ev = "call"

\* every (environment, name) pair that has a binding
Bindings ==
    UNION {{<<e, name>> : name \in DOMAIN envs[e].values} : e \in 1..Len(envs)}

\* every object held by a binding, an array slot or an array map entry
Held ==
    {envs[b[1]].values[b[2]] : b \in Bindings}
    \cup UNION {{arrays[a].elements[i].obj : i \in 1..Len(arrays[a].elements)}
                : a \in 1..Len(arrays)}
    \cup UNION {{arrays[a].map[key] : key \in DOMAIN arrays[a].map} : a \in 1..Len(arrays)}

\* the names a block reads when it is evaluated in env in the current state
ReadNames(block, env) ==
    LET t == BlockExpression_eval(block, env, <<>>, Store).st.trace
    IN  {t[k].s : k \in {j \in 1..Len(t) : t[j].ev = "read"}}

\* C1 (as the spec states it): once `watch w = { B };` has been declared at
\* top level, after any later statement that assigned (in whatever scope) to a
\* variable B reads, w is bound to the value B yields in the state reached.
C1_WatchFollowsAssignment ==
    status # "panicked" =>
        \A j \in 1..(iter - 1) :
            LET D == StatementAt(j)
            IN  (/\ D.t = "WatchDeclaration"
                 /\ \E k \in Events("assign") :
                        /\ trace[k].s \in ReadNames(D.block, Root)
                        /\ trace[k].n = Resolve(envs, Root, trace[k].s))
                => envs[Root].values[D.name]
                       = BlockExpression_eval(D.block, Root, <<>>, Store).val

\* C2 (as the spec states it): one evaluation of a switch runs at most one
\* body, and exactly one when it has a default.
C2_SwitchRunsOneBody ==
    \A k \in Events("switch") :
        /\ trace[k].n <= 1
        /\ trace[k].s = "default" => trace[k].n = 1

IsMarker(obj) == obj.w # <<>>

\* C3 (as the spec states it): no binding, array slot or array map entry
\* holds a Return or BlockReturn marker, and no call yields one.
C3_NoMarkerEscapes ==
    /\ \A obj \in Held : ~IsMarker(obj)
    /\ \A k \in Events("callret") : ~IsMarker(trace[k].val)

\* C4 (as the spec states it): once `return e;` has run inside a for body
\* during a call, nothing more of the function body is evaluated (the loops and
\* switches around it only end) and the call yields the value of e.
C4_ReturnEndsTheCall ==
    \A k \in Events("return") :
        (trace[k].n >= 1 /\ InCall(k)) =>
            \E r \in Events("callret") :
                /\ r > k
                /\ trace[r].d = trace[k].d
                /\ \A j \in (k + 1)..(r - 1) :
                       trace[j].ev \in {"for", "case", "default", "switch", "block"}
                /\ trace[r].val = trace[k].val

\* the names bound to array ref
Holders(ref) == {b \in Bindings : envs[b[1]].values[b[2]] = ArrayObj(ref)}

\* the index or key an element assignment wrote to, as the object that reads it
StoredAt(k) == IF trace[k].i >= 0 THEN Number(trace[k].i) ELSE StringLiteral(trace[k].s)

\* no later element assignment of the statement wrote to the same place
LastStore(k) ==
    \A j \in Events("store") :
        j > k => <<trace[j].n, trace[j].i, trace[j].s>> # <<trace[k].n, trace[k].i, trace[k].s>>

\* C5: after an element assignment (numeric index or string key) to an array,
\* reading the same index or key through every name bound to that array, in
\* whatever environment, yields the assigned value.
C5_ArraySharing ==
    \A k \in Events("store") :
        LastStore(k) =>
            \A b \in Holders(trace[k].n) :
                LET r == ElementRead(Store, envs[b[1]].values[b[2]], StoredAt(k))
                IN  IsOk(r) /\ r.val = trace[k].val

\* an element assignment made through one name of an array that two names in
\* different environments are bound to
C5_Witness ==
    \E k \in Events("store") :
        /\ trace[k].d >= 1
        /\ \E b, c \in Holders(trace[k].n) : b[1] # c[1]

\* the name event k reads or assigns is not a local of the call it lies in: it
\* resolved in an environment older than the call's own
NonLocal(k) == trace[k].n # 0 /\ trace[k].n < trace[FrameOf(k)].n

\* the events that bind name in environment e
Writes(e, name) ==
    {j \in 1..Len(trace) :
        /\ trace[j].ev \in {"assign", "let", "watch"}
        /\ trace[j].n = e
        /\ trace[j].s = name}

\* the closures held by bindings and arrays
Closures == {obj \in Held : Variant(obj) = "Function"}

\* C6: closures created in the same environment capture that one environment;
\* an assignment made in a closure's body to a variable of the enclosing scope
\* lands in the enclosing scope's binding, and a read of that variable in the
\* body of a closure (the same or another one) sees the value assigned last.
C6_ClosureCapture ==
    /\ \A f, g \in Closures : f.n = g.n => f.env = g.env
    /\ \A k \in Events("assign") :
           (InCall(k) /\ NonLocal(k)) =>
               /\ trace[k].n = Resolve(envs, trace[FrameOf(k)].i, trace[k].s)
               /\ (\A j \in Writes(trace[k].n, trace[k].s) : j <= k)
                      => envs[trace[k].n].values[trace[k].s] = trace[k].val
    /\ \A k \in Events("read") :
           (InCall(k) /\ NonLocal(k)) =>
               /\ trace[k].n = Resolve(envs, trace[FrameOf(k)].i, trace[k].s)
               /\ \A j \in Writes(trace[k].n, trace[k].s) :
                      (j < k /\ \A j2 \in Writes(trace[k].n, trace[k].s) : j2 < k => j2 <= j)
                          => trace[k].val = trace[j].val

\* one closure assigns a variable of the scope it was created in, and a call
\* of another closure created in that scope then reads the assigned value,
\* which the scope itself holds too
C6_Witness ==
    \E k1 \in Events("assign") : \E k2 \in Events("read") :
        /\ k1 < k2
        /\ InCall(k1) /\ NonLocal(k1)
        /\ InCall(k2) /\ NonLocal(k2)
        /\ trace[FrameOf(k1)].n # trace[FrameOf(k2)].n
        /\ trace[FrameOf(k1)].i = trace[FrameOf(k2)].i
        /\ trace[k1].n = trace[k2].n
        /\ trace[k1].s = trace[k2].s
        /\ trace[k2].val = trace[k1].val
        /\ envs[trace[k1].n].values[trace[k1].s] = trace[k1].val
        /\ \E f, g \in Closures : f # g /\ f.n = g.n

RECURSIVE HasReturn(_)
\* the statement or expression contains a `return` statement
HasReturn(node) ==
    LET Some(nodes) == \E i \in 1..Len(nodes) : HasReturn(nodes[i])
    IN  CASE node.t = "ReturnStatement" -> TRUE
          [] node.t \in {"VariableDeclaration", "Expression", "BlockReturnStatement"} ->
               HasReturn(node.value)
          [] node.t = "WatchDeclaration" -> HasReturn(node.block)
          [] node.t = "BlockExpression" -> Some(node.statements)
          [] node.t = "InfixExpression" -> HasReturn(node.left) \/ HasReturn(node.right)
          [] node.t = "FunctionLiteral" -> HasReturn(node.body)
          [] node.t = "CallExpression" -> HasReturn(node.left) \/ Some(node.arguments)
          [] node.t = "IfExpression" ->
               HasReturn(node.condition) \/ HasReturn(node.consequence) \/ Some(node.alternative)
          [] node.t = "ArrayLiteral" ->
               \E i \in 1..Len(node.elements) : HasReturn(node.elements[i].value)
          [] node.t = "ElementAccessExpression" -> HasReturn(node.left) \/ HasReturn(node.index)
          [] node.t = "ForExpression" -> HasReturn(node.iterable) \/ HasReturn(node.body)
          [] node.t = "SwitchExpression" ->
               \/ HasReturn(node.expression)
               \/ \E i \in 1..Len(node.cases) :
                      HasReturn(node.cases[i].condition) \/ HasReturn(node.cases[i].body)
               \/ Some(node.default)
          [] node.t = "Assign" -> HasReturn(node.left) \/ HasReturn(node.right)
          [] OTHER -> FALSE

\* the program is made of `let`, `watch` and `;`-terminated expression
\* statements and holds no `return`
NoReturnNoTrailing ==
    \A j \in 1..Len(program) :
        /\ StatementAt(j).t \in {"VariableDeclaration", "WatchDeclaration", "Expression"}
        /\ ~HasReturn(StatementAt(j))

C8_ReturnsThePayload ==
    (status = "returned" /\ iter >= 1 /\ StatementAt(iter).t = "ReturnStatement") =>
        \E k \in Events("return") :
            /\ trace[k].d = 0
            /\ \A j \in Events("return") : trace[j].d = 0 => j <= k
            /\ value = trace[k].val

C9_Step ==
    /\ ~IsNone(value) => UNCHANGED <<iter, envs, arrays, trace, value>>
    /\ iter' # iter =>
           /\ iter' = iter + 1
           /\ trace'[1] = Event("stmt", 0, Root, 0, StatementAt(iter + 1).t, NoneObj)

\* C9: statements are evaluated in source order, one per step, and once the
\* value is anything other than None no further statement is evaluated: the
\* bindings, the arrays and the events stay as they are.
C9_StopsAtFirstValue == [][C9_Step]_vars

\* the program has returned a value with statements left unevaluated
C9_Witness ==
    /\ status = "returned"
    /\ ~IsNone(value)
    /\ iter < Len(program)

\* the object slot j of array ref stands for
SlotValue(ref, j) ==
    LET element == arrays[ref].elements[j]
    IN  IF element.key THEN arrays[ref].map[element.name] ELSE element.obj

\* C10: a for expression runs its body on the slots in order, goes on while
\* the body yields None, ends at the first body value other than None, and has
\* that value (None when every slot was visited) as its own; a value that is
\* no Return is handed to what follows the for (the `let` it initialises).
C10_ForValue ==
    \A k \in Events("for") :
        LET f == trace[k]
            its == f.its
        IN  /\ \A j \in 1..Len(its) : its[j].i = j /\ its[j].var = SlotValue(f.n, j)
            /\ \A j \in 1..(Len(its) - 1) : IsNone(its[j].val)
            /\ f.val = IF its = <<>> THEN NoneObj ELSE its[Len(its)].val
            /\ IsNone(f.val) => Len(its) = f.i
            /\ (/\ ~is_return(f.val)
                /\ k < Len(trace)
                /\ trace[k + 1].ev = "let"
                /\ trace[k + 1].d = f.d) => trace[k + 1].val = f.val

\* a for expression ended before its last slot on a value that is no Return,
\* and the `let` around it bound that value
C10_Witness ==
    \E k \in Events("for") :
        /\ Len(trace[k].its) >= 2
        /\ Len(trace[k].its) < trace[k].i
        /\ ~IsNone(trace[k].val)
        /\ ~is_return(trace[k].val)
        /\ k < Len(trace)
        /\ trace[k + 1].ev = "let"
        /\ trace[k + 1].val = trace[k].val

\* no element assignment to the array of event k follows it in the trace
Untouched(k) == \A j \in Events("store") : j > k => trace[j].n # trace[k].n

\* the value entry j of a literal stands for: its own when positional, that of
\* the last entry with the same key when keyed
Expected(entries, j) ==
    IF ~entries[j].keyed THEN entries[j].val
    ELSE LET same == {i \in 1..Len(entries) : entries[i].keyed /\ entries[i].key = entries[j].key}
         IN  entries[CHOOSE i \in same : \A i2 \in same : i2 <= i].val

\* C11: the array an array literal makes has one slot per entry, in source
\* order; numeric index j reads entry j (a keyed entry resolved to the value
\* its key maps to), a string index reads the value of its key, and a for
\* expression over the array binds its variable to the entries in that order.
C11_LiteralOrder ==
    \A k \in Events("literal") :
        LET entries == trace[k].its
            array == ArrayObj(trace[k].n)
        IN  Untouched(k) =>
                /\ \A j \in 1..Len(entries) :
                       LET r == ElementRead(Store, array, Number(j - 1))
                       IN  IsOk(r) /\ r.val = Expected(entries, j)
                /\ ~IsOk(ElementRead(Store, array, Number(Len(entries))))
                /\ \A j \in 1..Len(entries) :
                       entries[j].keyed =>
                           LET r == ElementRead(Store, array, StringLiteral(entries[j].key))
                           IN  IsOk(r) /\ r.val = Expected(entries, j)
                /\ \A f \in Events("for") :
                       (f > k /\ trace[f].n = trace[k].n) =>
                           \A j \in 1..Len(trace[f].its) :
                               trace[f].its[j].var = Expected(entries, trace[f].its[j].i)

\* a literal with a positional entry after a keyed one has been evaluated and a
\* for expression has visited every slot of its array
C11_Witness ==
    \E k \in Events("literal") : \E f \in Events("for") :
        LET entries == trace[k].its
        IN  /\ \E i, j \in 1..Len(entries) : i < j /\ entries[i].keyed /\ ~entries[j].keyed
            /\ f > k
            /\ trace[f].n = trace[k].n
            /\ Len(trace[f].its) = Len(entries)
            /\ Untouched(k)

\* the Result is Ok with a Return or BlockReturn marker
YieldsMarker(r) == r.err = "ok" /\ is_return_like(r.val)

\* C12: a block evaluates its statements in order and stops at the first one
\* that yields a Return or BlockReturn marker; its value is the payload of the
\* BlockReturn, the Return marker itself, and None otherwise.  A call yields
\* the value of its body block (a Return unwrapped), so nested blocks around a
\* trailing expression hand its value out to the call.
C12_BlockValue ==
    /\ \A k \in Events("block") :
           LET b == trace[k]
               its == b.its
               last == its[Len(its)]
           IN  /\ \A j \in 1..Len(its) : its[j].i = j
               /\ \A j \in 1..(Len(its) - 1) : ~YieldsMarker(its[j])
               /\ Len(its) < b.n => YieldsMarker(last)
               /\ its = <<>> => b.s = "ok" /\ IsNone(b.val)
               /\ its # <<>> =>
                      /\ b.s = last.err
                      /\ (b.s = "ok" /\ Variant(last.val) = "BlockReturn") =>
                             b.val = Payload(last.val)
                      /\ (b.s = "ok" /\ Variant(last.val) = "Return") => b.val = last.val
                      /\ (b.s = "ok" /\ ~is_return_like(last.val)) => IsNone(b.val)
    /\ \A c \in Events("callret") :
           /\ c > 1
           /\ trace[c - 1].ev = "block"
           /\ trace[c].val = IF is_return(trace[c - 1].val) THEN Payload(trace[c - 1].val)
                             ELSE trace[c - 1].val
    /\ (/\ status # "panicked"
        /\ iter >= 2
        /\ StatementAt(iter) = BlockStatements[2]
        /\ \A i \in 1..(iter - 1) : StatementAt(i) = BlockStatements[1])
           => envs[Root].values["r"] = Number(7)

\* a call whose body is three nested blocks has yielded the value of the
\* innermost trailing expression, and the body block stopped there with a
\* statement left
C12_Witness ==
    \E c \in Events("callret") :
        /\ c > 3
        /\ \A j \in (c - 3)..(c - 1) : trace[j].ev = "block" /\ trace[j].val = trace[c].val
        /\ trace[c].val = Number(5)
        /\ Len(trace[c - 1].its) < trace[c - 1].n

RECURSIVE AfterNewline(_)
\* what is left of a source text after its first Newline
AfterNewline(source) ==
    IF source = <<>> THEN <<>>
    ELSE IF Head(source).token = "Newline" THEN Tail(source)
    ELSE AfterNewline(Tail(source))

RECURSIVE Significant(_)
\* the tokens of a source text: newlines and comments dropped
Significant(source) ==
    IF source = <<>> THEN <<>>
    ELSE CASE Head(source).token = "Newline" -> Significant(Tail(source))
           [] Head(source).token = "Comment" -> Significant(AfterNewline(Tail(source)))
           [] OTHER -> <<Head(source).token>> \o Significant(Tail(source))

\* the number of next() calls among the first k calls
Taken(k) == Cardinality({j \in 1..k : calls[j].op = "next"})

\* the token a call made after n next() calls has to return
TokenAfter(n) ==
    LET tokens == Significant(peekable.lexer.source)
    IN  IF n < Len(tokens) THEN <<tokens[n + 1]>> ELSE <<>>

\* C13 (as the spec states it): whatever the source text and the order of the
\* calls, a call that follows a peek returns what the peek returned (peek is
\* idempotent, next returns the token last peeked); on a text every chunk of
\* which is a token, peek returns the token after those taken and next takes
\* exactly one; on exhausted input both return nothing.
C13_PeekIsIdempotent ==
    /\ \A k \in 1..(Len(calls) - 1) :
           calls[k].op = "peek" => calls[k + 1].token = calls[k].token
    /\ (\A j \in 1..Len(peekable.lexer.source) : peekable.lexer.source[j].token # "Error") =>
           \A k \in 1..Len(calls) : calls[k].token = TokenAfter(Taken(k - 1))
    /\ (peekable.lexer.pos = Len(peekable.lexer.source) /\ peekable.peeked = <<>>) =>
           /\ Peekable_peek(peekable).token = <<>>
           /\ Peekable_next(peekable).token = <<>>

\* the operators of the text that was parsed, in order
OperatorsOf(source) == [j \in 1..((Len(source) - 1) \div 2) |-> source[2 * j].token]

RECURSIVE Tree(_, _, _)
\* the tree of operands lo..hi under the precedence table with every operator
\* left-associative: the root is the last operator of the lowest level
Tree(ops, lo, hi) ==
    IF lo = hi THEN Identifier(OperandNames[lo])
    ELSE LET lowest == CHOOSE k \in lo..(hi - 1) :
                           \A j \in lo..(hi - 1) :
                               \/ get_precedence(ops[k]) < get_precedence(ops[j])
                               \/ get_precedence(ops[k]) = get_precedence(ops[j]) /\ j <= k
         IN  InfixExpression(Tree(ops, lo, lowest), ops[lowest], Tree(ops, lowest + 1, hi))

C15_WatchTerminates ==
    \A i \in 1..Len(trace) :
        trace[i].ev = "fire" =>
            \E j \in (i + 1)..Len(trace) : trace[j].ev = "fired" /\ trace[j].d = trace[i].d

\* C16: the first Err raised in the statement evaluated last aborts the
\* evaluation and reaches the program: a watch re-evaluation that gave an Err
\* and a statement of a block that gave an Err are followed by no further
\* evaluation, and the program has stopped on the error.
C16_FirstErrorAborts ==
    \A i \in 1..Len(trace) :
        /\ (trace[i].ev = "fired" /\ trace[i].s = "err") =>
               /\ status = "panicked"
               /\ \A j \in (i + 1)..Len(trace) : trace[j].ev \notin {"stmt", "read", "assign"}
        /\ trace[i].ev = "block" =>
               \A k \in 1..Len(trace[i].its) :
                   trace[i].its[k].err = "err" =>
                       k = Len(trace[i].its) /\ status = "panicked"

\* C17: in a statement that is not itself a watch declaration, every
\* identifier assignment to a name that has a watch registered in the
\* environment whose binding it updates fires that watch: the next step is
\* the re-evaluation of the stored declaration in its home environment.
C17_FiresWhereMutated ==
    (iter > 0 /\ status # "panicked" /\ StatementAt(iter).t # "WatchDeclaration") =>
        \A k \in Events("assign") :
            (trace[k].n # 0 /\ Has(envs[trace[k].n].watch, trace[k].s)) =>
                /\ k < Len(trace)
                /\ trace[k + 1].ev = "fire"
                /\ trace[k + 1].n = envs[trace[k].n].watch[trace[k].s].env
                /\ trace[k + 1].s = envs[trace[k].n].watch[trace[k].s].expressions.name

\* the events of the trace t that bind name in environment e
WritesIn(t, e, name) ==
    {j \in 1..Len(t) : t[j].ev \in {"assign", "let", "watch"} /\ t[j].n = e /\ t[j].s = name}

\* the statement is `let name = n = v;` for a number v and a name n that no
\* environment on the chain of the root defines
AssignsUnresolved(statement) ==
    /\ statement.t = "VariableDeclaration"
    /\ statement.value.t = "Assign"
    /\ statement.value.left.t = "Identifier"
    /\ statement.value.right.t = "NumberLiteral"
    /\ Resolve(envs, Root, statement.value.left.value) = 0

\* one statement, seen from the identifier assignments in it
C18_Step ==
    \* a binding of an environment that was there before the statement is new
    \* or changed only where an assignment resolved the name to it, or a let or
    \* a watch declaration ran in it
    /\ \A e \in 1..Len(envs) : \A name \in DOMAIN envs'[e].values :
           (name \notin DOMAIN envs[e].values \/ envs'[e].values[name] # envs[e].values[name])
               => WritesIn(trace', e, name) # {}
    \* an assignment binds the name to its value in the nearest environment of
    \* the chain that defines it
    /\ \A k \in 1..Len(trace') :
           (/\ trace'[k].ev = "assign"
            /\ trace'[k].n # 0
            /\ \A j \in WritesIn(trace', trace'[k].n, trace'[k].s) : j <= k)
               => envs'[trace'[k].n].values[trace'[k].s] = trace'[k].val
    \* an assignment to a name nothing defines binds nothing, raises no error
    \* and yields its right-hand value
    /\ (iter' = iter + 1 /\ AssignsUnresolved(StatementAt(iter + 1))) =>
           /\ status' = "running"
           /\ \A e \in 1..Len(envs') :
                  StatementAt(iter + 1).value.left.value \notin DOMAIN envs'[e].values
           /\ envs'[Root].values[StatementAt(iter + 1).name]
                  = Number(StatementAt(iter + 1).value.right.value)

\* C18: an identifier assignment updates the binding of the name in the
\* nearest environment of the parent chain that defines it and no other
\* binding; when no environment of the chain defines the name, no binding
\* changes, no error is raised and the assignment yields the right-hand value.
C18_AssignFrame == [][C18_Step]_vars

\* an assignment in a call has updated the parameter of the call, not the
\* binding of the same name in the root environment
C18_Witness ==
    /\ \E k \in Events("assign") : trace[k].n > Root /\ trace[k].s = "x"
    /\ Has(envs[Root].values, "x")
    /\ Has(envs[Root].values, "r")
    /\ envs[Root].values["x"] = Number(1)
    /\ envs[Root].values["r"] = Number(7)

RECURSIVE OnChain(_, _, _)
\* in the environments es, environment a is environment e or an ancestor of it
OnChain(es, a, e) == e # 0 /\ (a = e \/ OnChain(es, a, es[e].parent))

\* C19: a call evaluates the body of the closure in a new environment whose
\* parent is the environment the closure captured, the one its literal was
\* evaluated in; the parameters are bound there and the caller does not see
\* them; what is read before the body starts, the arguments included, is not
\* evaluated in the new environment; a free variable read in the body resolves
\* from the captured environment, whatever the caller's environment binds.
C19_LexicalCalls ==
    \A k \in Events("call") :
        /\ envs[trace[k].n].parent = trace[k].callee.env
        /\ trace[k].callee.env = trace[k].callee.n
        /\ \A p \in 1..Len(trace[k].callee.params) :
               /\ Has(envs[trace[k].n].values, trace[k].callee.params[p])
               /\ Resolve(envs, trace[k].env, trace[k].callee.params[p]) # trace[k].n
        /\ ~OnChain(envs, trace[k].n, trace[k].env)
        /\ \A r \in Events("read") :
               /\ r < k => ~OnChain(envs, trace[k].n, trace[r].i)
               /\ (FrameOf(r) = k /\ NonLocal(r)) =>
                      trace[r].n = Resolve(envs, trace[k].callee.env, trace[r].s)

\* a closure called from a scope that binds x to another value has read the
\* x of the scope it was created in: `let r = fn(x) { f(x) }(9);` gives 10
C19_Witness ==
    /\ \E k \in Events("call") : \E r \in Events("read") :
           /\ FrameOf(r) = k
           /\ trace[r].s = "x"
           /\ trace[r].n = Root
           /\ trace[k].env # Root
           /\ Has(envs[trace[k].env].values, "x")
           /\ envs[trace[k].env].values["x"] # trace[r].val
    /\ Has(envs[Root].values, "r")
    /\ envs[Root].values["r"] = Number(10)

\* one statement, seen from the declarations `let name = e` in it
C20_Step ==
    \A k \in 1..Len(trace') :
        trace'[k].ev = "let" =>
            \* the binding is made in the environment the declaration is
            \* evaluated in, and that environment and its descendants resolve
            \* the name to it or to a nearer binding
            /\ Has(envs'[trace'[k].n].values, trace'[k].s)
            /\ (\A j \in WritesIn(trace', trace'[k].n, trace'[k].s) : j <= k)
                   => envs'[trace'[k].n].values[trace'[k].s] = trace'[k].val
            /\ \A e \in 1..Len(envs') :
                   OnChain(envs', trace'[k].n, e)
                       => OnChain(envs', trace'[k].n, Resolve(envs', e, trace'[k].s))
            \* every other environment that was there before keeps what it
            \* had for the name, and resolves it as before if it is an ancestor
            /\ \A a \in 1..Len(envs) :
                   (a # trace'[k].n /\ WritesIn(trace', a, trace'[k].s) = {}) =>
                       /\ Has(envs'[a].values, trace'[k].s) = Has(envs[a].values, trace'[k].s)
                       /\ Has(envs[a].values, trace'[k].s)
                              => envs'[a].values[trace'[k].s] = envs[a].values[trace'[k].s]
                       /\ (/\ OnChain(envs', a, trace'[k].n)
                            /\ \A b \in 1..Len(envs) :
                                   OnChain(envs, b, a) => WritesIn(trace', b, trace'[k].s) = {})
                              => Resolve(envs', a, trace'[k].s) = Resolve(envs, a, trace'[k].s)

\* C20: `let name = e` binds the name in the environment the statement is
\* evaluated in and changes the binding of no other environment: that
\* environment and its descendants resolve the name innermost first, its
\* ancestors resolve it as they did.
C20_LetShadows == [][C20_Step]_vars

\* `let x = 2` in the body of a call has shadowed the root's x = 1: a call
\* made in the body read 2, the closure f of the root read 1, and r is 3
C20_Witness ==
    /\ \E k \in Events("let") : \E r \in Events("read") :
           /\ trace[k].n # Root
           /\ trace[k].s = "x"
           /\ trace[k].val = Number(2)
           /\ envs[trace[k].n].values["x"] = Number(2)
           /\ trace[r].s = "x"
           /\ trace[r].n = trace[k].n
           /\ trace[r].i # trace[k].n
    /\ Has(envs[Root].values, "x")
    /\ envs[Root].values["x"] = Number(1)
    /\ Has(envs[Root].values, "r")
    /\ envs[Root].values["r"] = Number(3)

\* the statement evaluated next is `watch name = { .. }` for a name that the
\* root environment resolves already
Redeclares ==
    /\ iter < Len(program)
    /\ StatementAt(iter + 1).t = "WatchDeclaration"
    /\ Resolve(envs, Root, StatementAt(iter + 1).name) # 0

\* the registrations environment e holds for the declaration of name
RegistrationsOf(es, e, name) ==
    {n \in DOMAIN es[e].watch : es[e].watch[n].expressions.name = name}

\* one statement, seen from the watch declarations in it that found their
\* name defined
C21_Step ==
    /\ \A k \in 1..Len(trace') :
           (trace'[k].ev = "watch" /\ trace'[k].i = 0) =>
               \* no environment gains or changes a registration for this name
               /\ \A e \in 1..Len(envs') :
                      IF e > Len(envs) THEN RegistrationsOf(envs', e, trace'[k].s) = {}
                      ELSE /\ RegistrationsOf(envs', e, trace'[k].s)
                                 = RegistrationsOf(envs, e, trace'[k].s)
                           /\ \A n \in RegistrationsOf(envs', e, trace'[k].s) :
                                  envs'[e].watch[n] = envs[e].watch[n]
               \* the name is defined where the declaration is evaluated
               /\ Has(envs'[trace'[k].n].values, trace'[k].s)
               /\ (\A j \in WritesIn(trace', trace'[k].n, trace'[k].s) : j <= k)
                      => envs'[trace'[k].n].values[trace'[k].s] = trace'[k].val
    \* a re-declaration at top level that completes has evaluated its block
    \* once, without tracking
    /\ (Redeclares /\ iter' = iter + 1 /\ status' = "running") =>
           \E k \in 1..Len(trace') :
               /\ trace'[k] = Event("watch", 0, Root, 0, StatementAt(iter + 1).name,
                                    envs'[Root].values[StatementAt(iter + 1).name])
               /\ \A j \in 1..Len(trace') :
                      (trace'[j].ev = "watch" /\ trace'[j].s = trace'[k].s) => j = k

RECURSIVE Silent(_)
\* an expression made of literals, reads, operators and element assignments
\* only: no identifier assignment, call, block, loop or switch in it
Silent(e) ==
    CASE e.t \in {"NumberLiteral", "BooleanLiteral", "StringLiteral", "Identifier"} -> TRUE
      [] e.t \in {"InfixExpression"} -> Silent(e.left) /\ Silent(e.right)
      [] e.t = "ElementAccessExpression" -> Silent(e.left) /\ Silent(e.index)
      [] e.t = "ArrayLiteral" -> \A j \in 1..Len(e.elements) : Silent(e.elements[j].value)
      [] e.t = "Assign" ->
           e.left.t = "ElementAccessExpression" /\ Silent(e.left) /\ Silent(e.right)
      [] OTHER -> FALSE

\* the statement evaluated next is `let x = v;` or `x[i] = v;`
StoresOrLets ==
    /\ iter < Len(program)
    /\ \/ StatementAt(iter + 1).t = "VariableDeclaration"
       \/ StatementAt(iter + 1).t = "Expression" /\ StatementAt(iter + 1).value.t = "Assign"
    /\ Silent(StatementAt(iter + 1).value)

\* the names some registration of some environment re-binds when it fires
WatchNames(es) ==
    UNION {{es[e].watch[n].expressions.name : n \in DOMAIN es[e].watch} : e \in 1..Len(es)}

C22_Step ==
    (StoresOrLets /\ iter' = iter + 1) =>
        \* no watch block is evaluated
        /\ \A k \in 1..Len(trace') : trace'[k].ev \notin {"fire", "fired", "watch"}
        \* every watch name keeps its binding, but the one a let declares itself
        /\ Len(envs') = Len(envs)
        /\ \A e \in 1..Len(envs) : \A n \in WatchNames(envs) :
               (Has(envs[e].values, n)
                    /\ ~(e = Root /\ StatementAt(iter + 1).t = "VariableDeclaration"
                                  /\ StatementAt(iter + 1).name = n))
                   => /\ Has(envs'[e].values, n)
                      /\ envs'[e].values[n] = envs[e].values[n]

\* C22: an element assignment `x[i] = v` / `x["k"] = v` and a `let x = v`
\* re-evaluate no watch block and leave the binding of every watch name as it
\* was, also when x has a watch registration in the current environment.
C22_OnlyIdentifierAssignmentFires == [][C22_Step]_vars

\* `a[0] = 7;` has stored into the array that a, registered for
\* `watch w = { a[0] }`, is bound to: w still has the value it was declared with
C22_Witness ==
    /\ iter >= 1
    /\ status = "running"
    /\ StatementAt(iter).t = "Expression"
    /\ \E k \in Events("store") : \E x \in DOMAIN envs[Root].watch :
           /\ Has(envs[Root].values, x)
           /\ envs[Root].values[x] = ArrayObj(trace[k].n)
           /\ trace[k].i = 0
           /\ Has(envs[Root].values, envs[Root].watch[x].expressions.name)
           /\ envs[Root].values[envs[Root].watch[x].expressions.name] # trace[k].val

\* ---------------------------------------------------------------- C23

RECURSIVE NamesIn(_)
\* the identifiers a statement or expression reads, in whatever branch
NamesIn(node) ==
    CASE node.t = "Identifier" -> {node.value}
      [] node.t = "InfixExpression" -> NamesIn(node.left) \cup NamesIn(node.right)
      [] node.t = "ElementAccessExpression" -> NamesIn(node.left) \cup NamesIn(node.index)
      [] node.t = "BlockExpression" ->
           UNION {NamesIn(node.statements[j]) : j \in 1..Len(node.statements)}
      [] node.t = "IfExpression" ->
           NamesIn(node.condition) \cup NamesIn(node.consequence)
               \cup UNION {NamesIn(node.alternative[j]) : j \in 1..Len(node.alternative)}
      [] node.t \in {"Expression", "BlockReturnStatement", "ReturnStatement",
                     "VariableDeclaration"} -> NamesIn(node.value)
      [] OTHER -> {}

\* C23 (as the spec states it): after the tracked evaluation of a top-level
\* `watch w = { .. }`, the declaring environment holds a registration for w
\* under every identifier the block reads, those of the if branches that were
\* not taken included.
C23_TracksUntakenBranches ==
    (iter >= 1 /\ StatementAt(iter).t = "WatchDeclaration") =>
        \A k \in Events("watch") :
            (trace[k].d = 0 /\ trace[k].i = 1 /\ trace[k].s = StatementAt(iter).name) =>
                \A x \in NamesIn(StatementAt(iter).block) :
                    /\ Has(envs[trace[k].n].watch, x)
                    /\ envs[trace[k].n].watch[x].expressions = StatementAt(iter)

\* ---------------------------------------------------------------- C24

\* the statement evaluated next is a top-level `watch w = { .. }` that tracks
TracksAtTop ==
    /\ iter < Len(program)
    /\ StatementAt(iter + 1).t = "WatchDeclaration"
    /\ Resolve(envs, Root, StatementAt(iter + 1).name) = 0

\* the statement evaluated next is a top-level `x = v;`
AssignsAtTop ==
    /\ iter < Len(program)
    /\ StatementAt(iter + 1).t = "Expression"
    /\ StatementAt(iter + 1).value.t = "Assign"
    /\ StatementAt(iter + 1).value.left.t = "Identifier"
    /\ Silent(StatementAt(iter + 1).value.right)

\* the registration a tracked evaluation of the declaration makes
Registration(declaration, env) == [expressions |-> declaration, env |-> env]

\* the read events of trace t: reads of name x evaluated in environment e
ReadsIn(t, e, x) == {k \in 1..Len(t) : t[k].ev = "read" /\ t[k].i = e /\ t[k].s = x}

C24_Step ==
    \* a tracked declaration whose block fires and declares nothing
    /\ (/\ TracksAtTop /\ iter' = iter + 1 /\ status' = "running"
        /\ \A k \in 1..Len(trace') : trace'[k].ev # "fire"
        /\ Cardinality({k \in 1..Len(trace') : trace'[k].ev = "watch"}) = 1) =>
           /\ \A k \in 1..Len(trace') :
                  trace'[k].ev = "read" =>
                      \* registered where the read is evaluated, replacing what was there
                      /\ Has(envs'[trace'[k].i].watch, trace'[k].s)
                      /\ envs'[trace'[k].i].watch[trace'[k].s]
                             = Registration(StatementAt(iter + 1), Root)
                      \* and not where the name resolved
                      /\ (trace'[k].n # trace'[k].i
                            /\ ReadsIn(trace', trace'[k].n, trace'[k].s) = {}) =>
                             /\ Has(envs'[trace'[k].n].watch, trace'[k].s)
                                    <=> Has(envs[trace'[k].n].watch, trace'[k].s)
                             /\ Has(envs[trace'[k].n].watch, trace'[k].s) =>
                                    envs'[trace'[k].n].watch[trace'[k].s]
                                        = envs[trace'[k].n].watch[trace'[k].s]
           \* every other registration is as it was
           /\ \A e \in 1..Len(envs) : \A x \in DOMAIN envs[e].watch :
                  /\ Has(envs'[e].watch, x)
                  /\ envs'[e].watch[x] \in {envs[e].watch[x],
                                            Registration(StatementAt(iter + 1), Root)}
    \* an assignment re-evaluates the one declaration registered under the
    \* name in the environment it is evaluated in, and no other
    /\ (AssignsAtTop /\ iter' = iter + 1) =>
           LET x == StatementAt(iter + 1).value.left.value
               fires == {k \in 1..Len(trace') : trace'[k].ev = "fire" /\ trace'[k].d = 1}
           IN  IF Has(envs[Root].watch, x)
               THEN /\ Cardinality(fires) = 1
                    /\ \A k \in fires :
                           /\ trace'[k].s = envs[Root].watch[x].expressions.name
                           /\ trace'[k].n = envs[Root].watch[x].env
               ELSE fires = {}

\* C24: a tracked read registers the declaration under the identifier's name
\* in the environment the read is evaluated in (not the one the name is found
\* in); an environment holds one registration per name, a later one replacing
\* the earlier; an assignment re-evaluates only the declaration registered last.
C24_OneRegistrationPerName == [][C24_Step]_vars

\* `{ let x = 1; watch b = { x }; 0 }; watch c = { x + 2 }; x = 5;` has run:
\* the registration under x is the one of c, c was re-evaluated and is 7, b
\* was not and is still 1
C24_Witness ==
    /\ iter = 3
    /\ status = "running"
    /\ StatementAt(2).t = "WatchDeclaration"
    /\ Has(envs[Root].watch, "x")
    /\ envs[Root].watch["x"] = Registration(StatementAt(2), Root)
    /\ {trace[k].s : k \in Events("fire")} = {StatementAt(2).name}
    /\ Has(envs[Root].values, "b") /\ envs[Root].values["b"] = Number(1)
    /\ envs[Root].values["x"] = Number(5)
    /\ envs[Root].values[StatementAt(2).name] = Number(7)

\* ---------------------------------------------------------------- C25

RECURSIVE Scopeless(_)
\* a statement or expression made of blocks, ifs, switches, declarations,
\* literals, reads and operators: no call, loop, assignment or watch in it
Scopeless(node) ==
    CASE node.t \in {"NumberLiteral", "BooleanLiteral", "StringLiteral", "Identifier"} -> TRUE
      [] node.t = "InfixExpression" -> Scopeless(node.left) /\ Scopeless(node.right)
      [] node.t = "ArrayLiteral" ->
           \A j \in 1..Len(node.elements) : Scopeless(node.elements[j].value)
      [] node.t = "BlockExpression" ->
           \A j \in 1..Len(node.statements) : Scopeless(node.statements[j])
      [] node.t = "IfExpression" ->
           /\ Scopeless(node.condition) /\ Scopeless(node.consequence)
           /\ \A j \in 1..Len(node.alternative) : Scopeless(node.alternative[j])
      [] node.t = "SwitchExpression" ->
           /\ Scopeless(node.expression)
           /\ \A j \in 1..Len(node.cases) :
                  Scopeless(node.cases[j].condition) /\ Scopeless(node.cases[j].body)
           /\ \A j \in 1..Len(node.default) : Scopeless(node.default[j])
      [] node.t \in {"Expression", "VariableDeclaration", "BlockReturnStatement"} ->
           Scopeless(node.value)
      [] OTHER -> FALSE

\* the statement evaluated next is made of blocks, ifs and switches
Braces == iter < Len(program) /\ Scopeless(StatementAt(iter + 1))

\* the statement evaluated next is `for (v in e) { .. };` or `let x = for ..;`
\* with nothing but blocks, ifs and switches in the body
Loops ==
    /\ iter < Len(program)
    /\ StatementAt(iter + 1).t \in {"Expression", "VariableDeclaration"}
    /\ StatementAt(iter + 1).value.t = "ForExpression"
    /\ Scopeless(StatementAt(iter + 1).value.iterable)
    /\ Scopeless(StatementAt(iter + 1).value.body)

\* the events of trace t of the given kinds
EventsOf(t, kinds) == {k \in 1..Len(t) : t[k].ev \in kinds}

\* the iteration event k of trace t lies in: 0 before the first and after the
\* for has ended
IterationOf(t, k) ==
    IF {j \in EventsOf(t, {"iter"}) : j < k} = {} \/ \E j \in EventsOf(t, {"for"}) : j < k
    THEN 0
    ELSE CHOOSE j \in EventsOf(t, {"iter"}) :
             j < k /\ \A m \in EventsOf(t, {"iter"}) : m < k => m <= j

\* the environment a statement of trace t at position k is to run in
ScopeOf(t, k) == IF IterationOf(t, k) = 0 THEN Root ELSE t[IterationOf(t, k)].n

C25_Step ==
    \* blocks, if and switch bodies: everything runs in the current environment
    /\ (Braces /\ iter' = iter + 1) =>
           /\ Len(envs') = Len(envs)
           /\ \A k \in EventsOf(trace', {"stmt", "let"}) : trace'[k].n = Root
           /\ \A k \in EventsOf(trace', {"let"}) :
                  /\ Has(envs'[Root].values, trace'[k].s)
                  /\ (\A j \in EventsOf(trace', {"let"}) :
                          trace'[j].s = trace'[k].s => j <= k)
                         => envs'[Root].values[trace'[k].s] = trace'[k].val
    \* for: one fresh child environment per iteration
    /\ (Loops /\ iter' = iter + 1) =>
           /\ Len(envs') = Len(envs) + Cardinality(EventsOf(trace', {"iter"}))
           /\ \A k \in EventsOf(trace', {"iter"}) :
                  /\ trace'[k].n > Len(envs)
                  /\ envs'[trace'[k].n].parent = Root
                  /\ \A j \in EventsOf(trace', {"iter"}) :
                         trace'[j].n = trace'[k].n => j = k
                  \* it holds the loop variable and what its own body declared
                  /\ DOMAIN envs'[trace'[k].n].values
                         = {trace'[k].s}
                               \cup {trace'[j].s : j \in {m \in EventsOf(trace', {"let"}) :
                                                            IterationOf(trace', m) = k}}
           /\ \A k \in EventsOf(trace', {"stmt", "let"}) : trace'[k].n = ScopeOf(trace', k)
           \* after the loop the enclosing environment is as it was, but for
           \* the name the statement declares itself
           /\ \A x \in DOMAIN envs'[Root].values :
                  \/ /\ StatementAt(iter + 1).t = "VariableDeclaration"
                     /\ StatementAt(iter + 1).name = x
                  \/ /\ Has(envs[Root].values, x)
                     /\ envs'[Root].values[x] = envs[Root].values[x]

\* C25: bare blocks and if/switch bodies are evaluated in the current
\* environment (a `let` in them binds in the enclosing environment and stays
\* visible); every for iteration runs in its own fresh child environment
\* holding the loop variable, so the variable and a `let` of one iteration are
\* not visible in later iterations or after the loop.
C25_ScopeIntroduction == [][C25_Step]_vars

\* `for (v in [1, 2]) { if (v == 1) { let y = v + 5; }; };` has run after
\* `let y = 0;`: two iterations in two environments, the first holds v and
\* y = 6, the second v only, and the root's y is still 0 and it has no v
C25_Witness ==
    /\ iter >= 2
    /\ status = "running"
    /\ StatementAt(iter).t = "Expression"
    /\ StatementAt(iter).value.t = "ForExpression"
    /\ Cardinality(Events("iter")) = 2
    /\ \E j, k \in Events("iter") : \E m \in Events("let") :
           /\ j < m /\ m < k
           /\ trace[m].n = trace[j].n
           /\ trace[j].n # trace[k].n
           /\ envs[trace[m].n].values[trace[m].s] = Number(6)
           /\ DOMAIN envs[trace[k].n].values = {trace[k].s}
           /\ Has(envs[Root].values, trace[m].s)
           /\ envs[Root].values[trace[m].s] = Number(0)
           /\ ~Has(envs[Root].values, trace[k].s)

\* ---------------------------------------------------------------- C26

\* the statement evaluated next is `a[i] = v;` or `let r = a[i] = v;` for a
\* name a the root environment binds
AssignsElement ==
    /\ iter < Len(program)
    /\ StatementAt(iter + 1).t \in {"Expression", "VariableDeclaration"}
    /\ StatementAt(iter + 1).value.t = "Assign"
    /\ Silent(StatementAt(iter + 1).value)
    /\ StatementAt(iter + 1).value.left.left.t = "Identifier"
    /\ Has(envs[Root].values, StatementAt(iter + 1).value.left.left.value)

\* the array, the index and the value of that assignment in the current state
Target == envs[Root].values[StatementAt(iter + 1).value.left.left.value]
IndexOf == eval(StatementAt(iter + 1).value.left.index, Root, <<>>, Store)
Assigned == eval(StatementAt(iter + 1).value.right, Root, <<>>, Store)

C26_Step ==
    (/\ AssignsElement /\ iter' = iter + 1
     /\ Variant(Target) = "Array" /\ IsOk(IndexOf) /\ IsOk(Assigned)) =>
        LET ref == Target.n
            index == IndexOf.val
            v == Assigned.val
        IN  CASE Variant(index) = "Number"
                     /\ index.n >= 0 /\ index.n < Len(arrays[ref].elements) ->
                   \* the positional slot is replaced
                   /\ status' = "running"
                   /\ arrays' = [arrays EXCEPT ![ref].elements[index.n + 1] = ObjectElement(v)]
                   /\ StatementAt(iter + 1).t = "VariableDeclaration" =>
                          envs'[Root].values[StatementAt(iter + 1).name] = v
              [] Variant(index) = "Number"
                     /\ ~(index.n >= 0 /\ index.n < Len(arrays[ref].elements)) ->
                   \* an error, slots and map as they were
                   /\ status' = "panicked"
                   /\ arrays' = arrays
                   /\ envs' = envs
              [] Variant(index) = "StringLiteral" ->
                   \* the map entry is inserted or overwritten, the slots stay
                   /\ status' = "running"
                   /\ arrays' = [arrays EXCEPT ![ref].map = Put(@, index.s, v)]
                   /\ StatementAt(iter + 1).t = "VariableDeclaration" =>
                          envs'[Root].values[StatementAt(iter + 1).name] = v
              [] OTHER -> status' = "panicked" /\ arrays' = arrays

\* C26: `a[i] = v` replaces the positional slot for a numeric index inside the
\* slot list; for a numeric index outside it, a negative one included, it is
\* an error and slots and map are unchanged; for a string index it inserts or
\* overwrites the map entry and leaves the slots; on success its value is v.
C26_ElementAssignment == [][C26_Step]_vars

\* `a[0 - 1] = 9;` has been evaluated on a = [1, k: 2]: the evaluation ended
\* with an error and the array is as the literal built it
C26_Witness ==
    /\ iter >= 2
    /\ status = "panicked"
    /\ StatementAt(iter).t = "Expression"
    /\ StatementAt(iter).value.t = "Assign"
    /\ StatementAt(iter).value.left.t = "ElementAccessExpression"
    /\ StatementAt(iter).value.left.index.t = "InfixExpression"
    /\ Has(envs[Root].values, "a")
    /\ Variant(envs[Root].values["a"]) = "Array"
    /\ arrays[envs[Root].values["a"].n].elements
           = <<ObjectElement(Number(1)), KeyElement("k")>>
    /\ arrays[envs[Root].values["a"].n].map = Put(<<>>, "k", Number(2))

\* ---------------------------------------------------------------- C27

\* the statement evaluated last is `for (v in a) { b[i] = e; };` where a and
\* b are bound to the same array and i is a key or an index inside the slots
MutatedWhileIterated ==
    /\ iter >= 1
    /\ StatementAt(iter).t = "Expression"
    /\ StatementAt(iter).value.t = "ForExpression"
    /\ StatementAt(iter).value.iterable.t = "Identifier"
    /\ Len(StatementAt(iter).value.body.statements) = 1
    /\ StatementAt(iter).value.body.statements[1].t = "Expression"
    /\ StatementAt(iter).value.body.statements[1].value.t = "Assign"
    /\ StatementAt(iter).value.body.statements[1].value.left.t = "ElementAccessExpression"
    /\ StatementAt(iter).value.body.statements[1].value.left.left.t = "Identifier"
    /\ StatementAt(iter).value.body.statements[1].value.left.index.t
           \in {"NumberLiteral", "StringLiteral"}
    /\ LET a == StatementAt(iter).value.iterable.value
           b == StatementAt(iter).value.body.statements[1].value.left.left.value
           i == StatementAt(iter).value.body.statements[1].value.left.index
       IN  /\ Has(envs[Root].values, a) /\ Has(envs[Root].values, b)
           /\ Variant(envs[Root].values[a]) = "Array"
           /\ envs[Root].values[a] = envs[Root].values[b]
           /\ Len(arrays[envs[Root].values[a].n].elements) > 0
           /\ i.t = "NumberLiteral" =>
                  i.value < Len(arrays[envs[Root].values[a].n].elements)

\* C27 (as the spec states it): an element assignment to the array a for loop
\* is iterating does not abort the evaluation; the assignment takes effect and
\* the loop runs to its normal end.
C27_InteriorMutationTolerated ==
    MutatedWhileIterated =>
        /\ status = "running"
        /\ Events("store") # {}
        /\ \E k \in Events("for") : trace[k].s = "ok"

\* ---------------------------------------------------------------- C28

IsBlockReturn(obj) == "BlockReturn" \in {obj.w[j] : j \in 1..Len(obj.w)}

\* C28: the result of an expression is never a BlockReturn marker, and holds
\* none inside a Return either: no block, call, for or switch yields one, none
\* is read, assigned, declared, passed, stored or watched, and no binding,
\* array slot or map entry holds one.  Only the Result of a statement (the
\* history of a block, the value of the program loop) can be one.
C28_BlockReturnUnwindsOneBlock ==
    /\ \A k \in 1..Len(trace) : ~IsBlockReturn(trace[k].val)
    /\ \A obj \in Held : ~IsBlockReturn(obj)
    /\ \A k \in Events("block") :
           \A j \in 1..Len(trace[k].its) :
               IsBlockReturn(trace[k].its[j].val) =>
                   /\ j = Len(trace[k].its)
                   /\ trace[k].val = Payload(trace[k].its[j].val)
    /\ IsBlockReturn(value) => Variant(value) = "BlockReturn" /\ ~IsBlockReturn(Payload(value))

\* a block inside a block has run: the statement `{ 5 }` of the outer block
\* gave BlockReturn(5), the outer block stopped there and its value is 5
C28_Witness ==
    /\ status = "running"
    /\ \E j, k \in Events("block") :
           /\ j < k
           /\ trace[j].d = trace[k].d
           /\ trace[j].val = Number(5)
           /\ trace[k].its # <<>>
           /\ trace[k].its[Len(trace[k].its)].val = BlockReturn(trace[j].val)
           /\ Len(trace[k].its) < trace[k].n
           /\ trace[k].val = trace[j].val

\* ---------------------------------------------------------------- C29

\* the kinds of chunk a program text is written from
TextKinds ==
    {Lexeme("Identifier", "x"), Lexeme("Number", <<1>>), Lexeme("Semicolon", ";"),
     Lexeme("Newline", ""), Lexeme("Error", "@")}

Texts == UNION {[1..n -> TextKinds] : n \in 0..MaxLexemes}

\* Peekable::new(source) on any program text
TextInit ==
    /\ BackIdle
    /\ \E source \in Texts : peekable = Peekable_new(source)
    /\ calls = <<>>
    /\ parsed = <<>>

\* main: the text is lexed and handed to parse or parse_expression
TextSpec == TextInit /\ [][ParseNext]_vars

\* the text holds a chunk the lexer cannot tokenize
Untokenizable ==
    \E j \in 1..Len(peekable.lexer.source) : peekable.lexer.source[j].token = "Error"

\* C29 (as the spec states it): `parse` returns a Program only if the whole
\* text was consumed, and returns an error when the text holds a chunk the
\* lexer cannot tokenize.
C29_ParseConsumesAllOrFails ==
    (parsed # <<>> /\ parsed[1].by = "parse" /\ parsed[1].err = "ok") =>
        /\ ~Untokenizable
        /\ peekable.lexer.pos = Len(peekable.lexer.source)
        /\ peekable.peeked = <<>>

\* ---------------------------------------------------------------- C30

\* statement j is the `let x = [ .. ];` that bound x last
BuiltBy(j) ==
    /\ StatementAt(j).t = "VariableDeclaration"
    /\ StatementAt(j).value.t = "ArrayLiteral"
    /\ \A m \in (j + 1)..iter :
           StatementAt(m).t = "VariableDeclaration" => StatementAt(m).name # StatementAt(j).name
    /\ Has(envs[Root].values, StatementAt(j).name)
    /\ Variant(envs[Root].values[StatementAt(j).name]) = "Array"

\* C30 (as the claim states it): for an array built with a keyed entry k at
\* position i, whatever element assignments by index and by key have been
\* made since, reading a[i] and reading a["k"] give the same.
C30_ViewsConsistent ==
    \A j \in 1..iter :
        BuiltBy(j) =>
            \A i \in 1..Len(StatementAt(j).value.elements) :
                StatementAt(j).value.elements[i].keyed =>
                    LET a == envs[Root].values[StatementAt(j).name]
                        byIndex == ElementRead(Store, a, Number(i - 1))
                        byKey == ElementRead(Store, a,
                                             StringLiteral(StatementAt(j).value.elements[i].key))
                    IN  byIndex.err = byKey.err /\ byIndex.val = byKey.val

====
